---- MODULE Spec2Model ----
(***************************************************************************)
(* State-machine model of the subsystems of tartan_forklift:               *)
(*   - NewRosbagsWatchdog (scripts/data_manager/new_rosbags_watchdog.py),  *)
(*     the tracker that decides when a recording directory is complete;    *)
(*   - CompressionManager (upload_rosbags/modules/compression_manager.py), *)
(*     the worker pool that compresses rosbags into a queue;               *)
(*   - RosbagUploader.process_rosbags_in_directory (upload_rosbags/        *)
(*     upload_rosbags.py), the loop that uploads what the pool produces;   *)
(*   - compress_and_transfer_rosbag / process_directory                    *)
(*     (upload_vehicle_data.py), the transfer with its retry loop;         *)
(*   - S3RosbagBackupAgent (scripts/s3_backup_agent/s3_backup_agent.py),   *)
(*     enqueue and the uploading process;                                  *)
(*   - main and the head of process_directory (upload_vehicle_data.py):    *)
(*     the loop over subdirectories, find_metadata_file and the count      *)
(*     guard before any rosbag is submitted.                               *)
(* Each subsystem has its own specifications (SpecTracker,                 *)
(* SpecTrackerMalformed, SpecPipeline, SpecPipelineLock, SpecPipelineStop, *)
(* SpecPipelineStopFair, SpecUploader, SpecTransfer, SpecDirectory,        *)
(* SpecAgent, SpecProcessDirectory, SpecMain); the variables of the other  *)
(* subsystems stay at rest.                                                *)
(***************************************************************************)
EXTENDS Integers, Sequences, FiniteSets, TLC

VARIABLES
    \* ---- NewRosbagsWatchdog
    manifest,                 \* environment: content of each directory's metadata.yaml
    rosbags_directories,      \* self.rosbags_directories (dict: directory -> RosbagRecordingMeta)
    rosbag_recording_queue,   \* self.rosbag_recording_queue (queue.Queue)
    events,                   \* history: the paths on_closed was called with, in order
    putLog,                   \* history: one record per rosbag_recording_queue.put
    polled,                   \* history: what are_there_more_recordings returned (not None)
    escaped,                  \* history: the on_closed calls (positions in events) an exception left
    \* ---- CompressionManager and its consumer
    pending_rosbags_indices,  \* self.pending_rosbags_indices (set of indices)
    compressed_rosbags_queue, \* self.compressed_rosbags_queue (multiprocessing.Queue)
    stop_event,               \* self.stop_event (threading.Event)
    threads,                  \* self.threads (the workers in the list)
    wpc,                      \* position of each compression_worker thread
    widx,                     \* each worker's local idx (None when it holds none)
    wbag,                     \* each worker's local compressed_rosbag (None when none)
    temp_files,               \* indices whose compressed file exists in temp_directory
    cpc,                      \* position of the consumer inside get_compressed_bag
    got,                      \* history: the Rosbags get_compressed_bag returned
    compress_failed,          \* history: indices whose compressor run failed
    pops_after_stop,          \* history: per worker, the pops made with stop_event set
    pending_lock,             \* self.pending_lock: the thread holding it, or None
    \* ---- s3_backup_agent.py: S3RosbagBackupAgent
    to_backup_queue,          \* self.to_backup_queue
    uploading_process,        \* self.uploading_process: None or the last Process started
    backup_pc,                \* position of each started Process inside _backup_routine
    backup_item,              \* rosbag_recording of each started Process
    enqueue_pc,               \* position of the caller inside enqueue
    enqueued,                 \* history: number of enqueue calls made
    backed_up,                \* history: recordings whose _upload_recording returned
    \* ---- upload_vehicle_data.py: main and the head of process_directory
    main_pc,                  \* position of main: its loop over subdirectories
    subdirectory,             \* main: number of the subdirectory of the current turn
    metadata_path,            \* process_directory: what find_metadata_file returned
    expected_bags,            \* process_directory: len(expected_bags) of the manifest
    total_files,              \* process_directory: total_files
    submissions,              \* history: executor.submit calls per rosbag
    total_uploaded_files,     \* main: total_uploaded_files
    main_total_files,         \* main: total_files
    global_rosbag_counter,    \* main: global_rosbag_counter
    \* ---- upload_vehicle_data.py: compress_and_transfer_rosbag tasks
    tpc,                      \* position of each submitted task
    disk_attempt,             \* check_disk_space: the loop variable attempt
    attempts,                 \* compress_and_transfer_rosbag: attempts
    success,                  \* compress_and_transfer_rosbag: success
    task_result,              \* what the task returned (None while it runs)
    remote_temp,              \* the .mcap files in {remote_directory}/temp, oldest first
    rsync_calls,              \* history: number of rsync invocations per task
    rm_result,                \* history: outcome of the task's own rm (None: not issued)
    \* ---- upload_rosbags.py: process_rosbags_in_directory
    metadata_exists,          \* metadata_file.exists()
    temp_directory,           \* temp_directory exists on disk
    current_rosbag_count,     \* current_rosbag_count - uploaded_rosbags
    stopped,                  \* self.stopped
    join_i,                   \* stop(): how many threads of self.threads were joined
    exception,                \* the exception that left the function (None: none)
    upload_log,               \* history: one record per upload_file call
    sent_commands,            \* history: the commands given to ssh_client.send_command
    \* ---- upload_vehicle_data.py: process_directory around its tasks
    pdpc,                     \* position of process_directory
    clean_up,                 \* config['clean_up']
    successfully_uploaded_files, \* successfully_uploaded_files
    remote_temp_directory,    \* {remote_directory}/temp exists
    source_files,             \* the paths of rosbag_list that exist in remote_directory
    pd_exception              \* process_directory left with an exception

trackerVars == <<manifest, rosbags_directories, rosbag_recording_queue,
                 events, putLog, polled, escaped>>

pipelineVars == <<pending_rosbags_indices, compressed_rosbags_queue, stop_event,
                  threads, wpc, widx, wbag, temp_files, cpc, got,
                  compress_failed>>

transferVars == <<tpc, disk_attempt, attempts, success, task_result,
                  remote_temp, rsync_calls, rm_result>>

stopVars == <<pops_after_stop>>
lockVars == <<pending_lock>>
mainVars == <<main_pc, subdirectory, metadata_path, expected_bags, total_files,
              submissions, total_uploaded_files, main_total_files,
              global_rosbag_counter>>
agentVars == <<to_backup_queue, uploading_process, backup_pc, backup_item,
               enqueue_pc, enqueued, backed_up>>

uploaderVars == <<metadata_exists, temp_directory, current_rosbag_count,
                  stopped, join_i, exception, upload_log, sent_commands>>

directoryVars == <<pdpc, clean_up, successfully_uploaded_files,
                   remote_temp_directory, source_files, pd_exception>>

vars == <<trackerVars, pipelineVars, transferVars, uploaderVars,
          directoryVars, stopVars, lockVars, agentVars, mainVars>>

\* ------------------------------------------------------------------------
\* Generic helpers
\* ------------------------------------------------------------------------
Range(s) == {s[i] : i \in DOMAIN s}

\* Python's None / a present value, as a set of at most one element.
None == {}
Some(x) == {x}
Val(o) == CHOOSE x \in o : TRUE

\* The subsequence of s made of its elements that are in keep.
RECURSIVE SelectIdx(_, _, _)
SelectIdx(s, keep, i) ==
    IF i > Len(s) THEN <<>>
    ELSE (IF s[i] \in keep THEN <<s[i]>> ELSE <<>>) \o SelectIdx(s, keep, i + 1)
Restrict(s, keep) == SelectIdx(s, keep, 1)

\* Number of occurrences of x in s.
Count(s, x) == Cardinality({i \in DOMAIN s : s[i] = x})

\* ------------------------------------------------------------------------
\* Bounds of the tracker model
\* ------------------------------------------------------------------------
MaxEvents == 5          \* number of on_closed calls explored
MaxMalformed == 1       \* how many of them find a malformed metadata.yaml

\* ------------------------------------------------------------------------
\* Paths.  A path is its parent directory and its file name; a file name is
\* the sequence of its pieces, the last piece being what str.endswith tests.
\* ------------------------------------------------------------------------
Dirs == {"rec1", "rec2"}

MetadataName == <<"metadata.yaml">>
BagA == <<"a", ".mcap">>
BagB == <<"b", ".mcap">>
BagC == <<"c", ".mcap">>
OtherName == <<"notes", ".txt">>

\* The files that can be closed in each directory.
NamesIn(d) ==
    IF d = "rec1" THEN {MetadataName, BagA, BagB, BagC, OtherName}
    ELSE {MetadataName, BagA}

Paths == UNION {{[parent |-> d, name |-> n] : n \in NamesIn(d)} : d \in Dirs}

\* The relative_file_paths a directory's metadata.yaml may list.
ManifestChoices(d) ==
    IF d = "rec1" THEN {<<BagA>>, <<BagA, BagB>>, <<BagA, BagB, BagC>>}
    ELSE {<<BagA>>}

EndsWith(name, suffix) == Len(name) > 0 /\ name[Len(name)] = suffix

is_rosbag_metadata(path) == EndsWith(path.name, "metadata.yaml")

is_rosbag_file(path) == EndsWith(path.name, ".mcap")

MetadataPath(d) == [parent |-> d, name |-> MetadataName]

\* ------------------------------------------------------------------------
\* RosbagMetadataParser.get_expected_rosbag_files: parent_directory / f for
\* each f of relative_file_paths, in the file's order.
\* ------------------------------------------------------------------------
get_expected_rosbag_files(mf, metadata_file_path) ==
    [i \in 1..Len(mf[metadata_file_path.parent]) |->
        [parent |-> metadata_file_path.parent,
         name |-> mf[metadata_file_path.parent][i]]]

\* ------------------------------------------------------------------------
\* NewRosbagsWatchdog, as functions of the tracker state
\*   t = [dirs |-> rosbags_directories, queue |-> rosbag_recording_queue]
\* ------------------------------------------------------------------------
RosbagRecordingMeta(absolute_path, expected_rosbags, received_rosbags) ==
    [absolute_path |-> absolute_path,
     expected_rosbags |-> expected_rosbags,
     received_rosbags |-> received_rosbags]

DictSet(dict, key, value) ==
    [k \in (DOMAIN dict) \cup {key} |-> IF k = key THEN value ELSE dict[k]]

DictPop(dict, key) == [k \in (DOMAIN dict) \ {key} |-> dict[k]]

all_rosbags_received_subset(rosbag_recording_meta) ==
    Range(Val(rosbag_recording_meta.expected_rosbags))
        \subseteq Range(rosbag_recording_meta.received_rosbags)

all_rosbags_received(rosbag_recording_meta) ==
    LET expected_set == Range(Val(rosbag_recording_meta.expected_rosbags))
        received_set == Range(rosbag_recording_meta.received_rosbags)
    IN  expected_set = received_set

handle_metadata_file(t, mf, metadata_file) ==
    LET rosbag_directory == metadata_file.parent
        expected_rosbags == get_expected_rosbag_files(mf, metadata_file)
    IN  IF rosbag_directory \notin DOMAIN t.dirs
        THEN [t EXCEPT !.dirs = DictSet(t.dirs, rosbag_directory,
                  RosbagRecordingMeta(Some(metadata_file.parent),
                                      Some(expected_rosbags), <<>>))]
        ELSE [t EXCEPT !.dirs[rosbag_directory].expected_rosbags =
                  Some(expected_rosbags)]

\* _handle_rosbag_file that gives up on a directory holding more files than
\* its manifest lists: the entry is dropped without a publication.
handle_rosbag_file_drops_overfull(t, rosbag_file) ==
    LET rosbag_directory == rosbag_file.parent
    IN  IF rosbag_directory \notin DOMAIN t.dirs
        THEN [t EXCEPT !.dirs = DictSet(t.dirs, rosbag_directory,
                  RosbagRecordingMeta(None, None, <<rosbag_file>>))]
        ELSE LET meta == [t.dirs[rosbag_directory] EXCEPT
                             !.received_rosbags = Append(@, rosbag_file)]
                 appended == [t EXCEPT !.dirs[rosbag_directory] = meta]
             IN  IF meta.absolute_path = None
                 THEN appended
                 ELSE IF all_rosbags_received(meta)
                      THEN [dirs |-> DictPop(appended.dirs, rosbag_directory),
                            queue |-> Append(appended.queue, rosbag_directory)]
                      ELSE IF all_rosbags_received_subset(meta)
                           THEN [appended EXCEPT !.dirs =
                                    DictPop(appended.dirs, rosbag_directory)]
                           ELSE appended

handle_rosbag_file(t, rosbag_file) ==
    LET rosbag_directory == rosbag_file.parent
    IN  IF rosbag_directory \notin DOMAIN t.dirs
        THEN [t EXCEPT !.dirs = DictSet(t.dirs, rosbag_directory,
                  RosbagRecordingMeta(None, None, <<rosbag_file>>))]
        ELSE LET meta == [t.dirs[rosbag_directory] EXCEPT
                             !.received_rosbags = Append(@, rosbag_file)]
                 appended == [t EXCEPT !.dirs[rosbag_directory] = meta]
             IN  IF meta.absolute_path = None
                 THEN appended
                 ELSE IF all_rosbags_received(meta)
                      THEN [dirs |-> DictPop(appended.dirs, rosbag_directory),
                            queue |-> Append(appended.queue, rosbag_directory)]
                      ELSE appended

\* on_closed that takes every path that is not a metadata.yaml for a rosbag.
on_closed_other_as_rosbag(t, mf, path) ==
    IF is_rosbag_metadata(path) THEN handle_metadata_file(t, mf, path)
    ELSE handle_rosbag_file(t, path)

on_closed(t, mf, path) ==
    IF is_rosbag_metadata(path) THEN handle_metadata_file(t, mf, path)
    ELSE IF is_rosbag_file(path) THEN handle_rosbag_file(t, path)
    ELSE t

\* The tracker after on_closed has been called with each path of seq in turn.
RECURSIVE RunFrom(_, _, _, _)
RunFrom(t, mf, seq, i) ==
    IF i > Len(seq) THEN t ELSE RunFrom(on_closed(t, mf, seq[i]), mf, seq, i + 1)

EmptyTracker == [dirs |-> <<>>, queue |-> <<>>]

Run(mf, seq) == RunFrom(EmptyTracker, mf, seq, 1)

\* ------------------------------------------------------------------------
\* Tracker actions
\* ------------------------------------------------------------------------
TrackerState == [dirs |-> rosbags_directories, queue |-> rosbag_recording_queue]

\* One call of on_closed(event) with event.src_path = path.
OnClosed(path) ==
    /\ Len(events) < MaxEvents
    /\ LET r == on_closed(TrackerState, manifest, path)
           d == path.parent
       IN  /\ rosbags_directories' = r.dirs
           /\ rosbag_recording_queue' = r.queue
           /\ events' = Append(events, path)
           /\ putLog' =
                IF Len(r.queue) > Len(rosbag_recording_queue)
                THEN Append(putLog,
                        [dir |-> r.queue[Len(r.queue)],
                         at |-> Len(events) + 1,
                         expected |-> rosbags_directories[d].expected_rosbags,
                         received |-> Append(
                             rosbags_directories[d].received_rosbags, path)])
                ELSE putLog
    /\ UNCHANGED <<manifest, polled, escaped>>
    /\ UNCHANGED <<pipelineVars, transferVars, uploaderVars, directoryVars, stopVars, lockVars, agentVars, mainVars>>

\* _handle_metadata_file on a malformed file: the parser is called first
\* (lines 96-98) and raises, so no statement that reads or writes
\* rosbags_directories runs.
handle_metadata_file_clearing(t, metadata_file) ==
    [t EXCEPT !.dirs = DictPop(t.dirs, metadata_file.parent)]

handle_metadata_file_raising(t, metadata_file) == t

\* One call of on_closed for a metadata.yaml that is malformed at the time
\* of the event (the recorder rewrites the file later): yaml.safe_load
\* raises YAMLError, or the document lacks rosbag2_bagfile_information or
\* relative_file_paths and the parser raises AttributeError or TypeError.
\* Neither the parser nor _handle_metadata_file nor on_closed has an except
\* clause: the exception leaves on_closed.
OnClosedMalformed(path) ==
    /\ Len(events) < MaxEvents
    /\ Len(escaped) < MaxMalformed
    /\ is_rosbag_metadata(path)
    /\ LET r == handle_metadata_file_raising(TrackerState, path)
       IN  /\ rosbags_directories' = r.dirs
           /\ rosbag_recording_queue' = r.queue
    /\ events' = Append(events, path)
    /\ escaped' = Append(escaped, Len(events) + 1)
    /\ UNCHANGED <<manifest, putLog, polled>>
    /\ UNCHANGED <<pipelineVars, transferVars, uploaderVars, directoryVars, stopVars, lockVars, agentVars, mainVars>>

\* A poll that takes the newest publication instead of the oldest.
AreThereMoreRecordings_newest_first ==
    /\ IF rosbag_recording_queue # <<>>
       THEN /\ polled' = Append(polled,
                    rosbag_recording_queue[Len(rosbag_recording_queue)])
            /\ rosbag_recording_queue' =
                    SubSeq(rosbag_recording_queue, 1,
                           Len(rosbag_recording_queue) - 1)
       ELSE UNCHANGED <<polled, rosbag_recording_queue>>
    /\ UNCHANGED <<manifest, rosbags_directories, events, putLog, escaped>>
    /\ UNCHANGED <<pipelineVars, transferVars, uploaderVars, directoryVars, stopVars, lockVars, agentVars, mainVars>>

\* One call of are_there_more_recordings(): get_nowait, None when empty.
AreThereMoreRecordings ==
    /\ IF rosbag_recording_queue # <<>>
       THEN /\ polled' = Append(polled, Head(rosbag_recording_queue))
            /\ rosbag_recording_queue' = Tail(rosbag_recording_queue)
       ELSE UNCHANGED <<polled, rosbag_recording_queue>>
    /\ UNCHANGED <<manifest, rosbags_directories, events, putLog, escaped>>
    /\ UNCHANGED <<pipelineVars, transferVars, uploaderVars, directoryVars, stopVars, lockVars, agentVars, mainVars>>

InitTracker ==
    /\ manifest \in {mf \in [Dirs -> UNION {ManifestChoices(d) : d \in Dirs}] :
                        \A d \in Dirs : mf[d] \in ManifestChoices(d)}
    /\ rosbags_directories = <<>>
    /\ rosbag_recording_queue = <<>>
    /\ events = <<>>
    /\ putLog = <<>>
    /\ polled = <<>>
    /\ escaped = <<>>

\* The tracker while another subsystem is explored: nothing is watched.
RestTracker ==
    /\ manifest = [d \in Dirs |-> <<BagA>>]
    /\ rosbags_directories = <<>>
    /\ rosbag_recording_queue = <<>>
    /\ events = <<>>
    /\ putLog = <<>>
    /\ polled = <<>>
    /\ escaped = <<>>

NextTracker ==
    \/ \E path \in Paths : OnClosed(path)
    \/ AreThereMoreRecordings

\* The tracker when metadata.yaml files can be malformed.
NextTrackerMalformed ==
    \/ NextTracker
    \/ \E path \in Paths : OnClosedMalformed(path)

\* ========================================================================
\* CompressionManager (upload_rosbags/modules/compression_manager.py) and the
\* consumer loop that calls get_compressed_bag
\* ========================================================================
NumRosbags == 3        \* len(rosbags_list)
NumWorkers == 2        \* params.compression_parallel_workers
QueueMaxSize == 2      \* params.compression_queue_max_size

Indices == 0..(NumRosbags - 1)
Workers == 0..(NumWorkers - 1)

\* The thread that calls get_compressed_bag, is_running and stop.
Consumer == NumWorkers

\* What one run of the external compressor can do: its exit code, and
\* whether it left an output file.
CompressOutcomes == [exit : {0, 1}, file : BOOLEAN]

Rosbag(absolute_path, size_bytes) ==
    [absolute_path |-> absolute_path, size_bytes |-> size_bytes]

\* compress_rosbag's return value: the temp path of rosbags_list[idx] and
\* the size of the file found there (0 when there is none).  A non-zero exit
\* (CalledProcessError) is logged and otherwise ignored.
compress_rosbag(idx, outcome) ==
    Rosbag(idx, IF outcome.file THEN 1 ELSE 0)

\* The compressor failed: non-zero exit, or no output file.
CompressorFailed(outcome) == outcome.exit # 0 \/ ~outcome.file

is_alive(w) == wpc[w] # "done"

\* is_running(): under pending_lock.
is_running ==
    pending_rosbags_indices # {} \/ \E w \in threads : is_alive(w)

\* ---- compression_worker(w), one action per statement that touches shared
\* state.  "loop": the while test; "qsize": the queue-size test; "pop": the
\* block under pending_lock; "compress": the external compressor is running;
\* "put": the put on the queue; "done": the thread function has returned.

\* A loop test that never sees the stop flag.
WorkerLoopTest_ignores_stop(w) ==
    /\ wpc[w] = "loop"
    /\ wpc' = [wpc EXCEPT ![w] = "qsize"]
    /\ UNCHANGED <<pending_rosbags_indices, compressed_rosbags_queue, stop_event,
                   threads, widx, wbag, temp_files, cpc, got, compress_failed>>
    /\ UNCHANGED <<trackerVars, transferVars, uploaderVars, directoryVars, stopVars, lockVars, agentVars, mainVars>>

\* while not self.stop_event.is_set():
WorkerLoopTest(w) ==
    /\ wpc[w] = "loop"
    /\ wpc' = [wpc EXCEPT ![w] = IF stop_event THEN "done" ELSE "qsize"]
    /\ UNCHANGED <<pending_rosbags_indices, compressed_rosbags_queue, stop_event,
                   threads, widx, wbag, temp_files, cpc, got, compress_failed>>
    /\ UNCHANGED <<trackerVars, transferVars, uploaderVars, directoryVars, stopVars, lockVars, agentVars, mainVars>>

\* A worker that goes on to pop whatever the queue size is.
WorkerQueueTest_always_passes(w) ==
    /\ wpc[w] = "qsize"
    /\ wpc' = [wpc EXCEPT ![w] = "pop"]
    /\ UNCHANGED <<pending_rosbags_indices, compressed_rosbags_queue, stop_event,
                   threads, widx, wbag, temp_files, cpc, got, compress_failed>>
    /\ UNCHANGED <<trackerVars, transferVars, uploaderVars, directoryVars, stopVars, lockVars, agentVars, mainVars>>

\* if self.compressed_rosbags_queue.qsize() >= compression_queue_max_size:
\*     time.sleep(0.5); continue
WorkerQueueTest(w) ==
    /\ wpc[w] = "qsize"
    /\ wpc' = [wpc EXCEPT ![w] =
                 IF Len(compressed_rosbags_queue) >= QueueMaxSize
                 THEN "loop" ELSE "pop"]
    /\ UNCHANGED <<pending_rosbags_indices, compressed_rosbags_queue, stop_event,
                   threads, widx, wbag, temp_files, cpc, got, compress_failed>>
    /\ UNCHANGED <<trackerVars, transferVars, uploaderVars, directoryVars, stopVars, lockVars, agentVars, mainVars>>

\* A pop that returns an index without removing it from the set.
\* with self.pending_lock:
\*     if not self.pending_rosbags_indices: break
\*     idx = self.pending_rosbags_indices.pop()
PopUnderLock(w) ==
    /\ IF pending_rosbags_indices = {}
       THEN /\ wpc' = [wpc EXCEPT ![w] = "done"]
            /\ UNCHANGED <<pending_rosbags_indices, widx>>
       ELSE \E idx \in pending_rosbags_indices :
            /\ pending_rosbags_indices' = pending_rosbags_indices \ {idx}
            /\ widx' = [widx EXCEPT ![w] = Some(idx)]
            /\ wpc' = [wpc EXCEPT ![w] = "compress"]
    /\ pops_after_stop' =
          IF pending_rosbags_indices # {} /\ stop_event
          THEN [pops_after_stop EXCEPT ![w] = @ + 1]
          ELSE pops_after_stop
    /\ UNCHANGED <<compressed_rosbags_queue, stop_event, threads, wbag,
                   temp_files, cpc, got, compress_failed>>
    /\ UNCHANGED <<trackerVars, transferVars, uploaderVars, directoryVars, agentVars, mainVars>>

WorkerPop_keeps_index(w) ==
    /\ wpc[w] = "pop"
    /\ IF pending_rosbags_indices = {}
       THEN /\ wpc' = [wpc EXCEPT ![w] = "done"]
            /\ UNCHANGED widx
       ELSE \E idx \in pending_rosbags_indices :
            /\ widx' = [widx EXCEPT ![w] = Some(idx)]
            /\ wpc' = [wpc EXCEPT ![w] = "compress"]
    /\ UNCHANGED <<pending_rosbags_indices, compressed_rosbags_queue, stop_event,
                   threads, wbag, temp_files, cpc, got, compress_failed>>
    /\ UNCHANGED <<trackerVars, transferVars, uploaderVars, directoryVars, stopVars, lockVars, agentVars, mainVars>>

\* The whole with-block as one step: the lock is free before and after it.
WorkerPop(w) ==
    /\ wpc[w] = "pop"
    /\ pending_lock = None
    /\ PopUnderLock(w)
    /\ UNCHANGED lockVars

\* The with-block step by step.  Entering it: pending_lock.acquire() blocks
\* while another thread holds the lock.
WorkerAcquire(w) ==
    /\ wpc[w] = "pop"
    /\ pending_lock = None
    /\ pending_lock' = Some(w)
    /\ UNCHANGED <<pipelineVars, stopVars, agentVars, mainVars>>
    /\ UNCHANGED <<trackerVars, transferVars, uploaderVars, directoryVars, agentVars, mainVars>>

WorkerPopLocked_keeps_lock(w) ==
    /\ wpc[w] = "pop"
    /\ pending_lock = Some(w)
    /\ PopUnderLock(w)
    /\ UNCHANGED lockVars

\* The body of the with-block and its exit (also by break), which releases
\* the lock.
WorkerPopLocked(w) ==
    /\ wpc[w] = "pop"
    /\ pending_lock = Some(w)
    /\ PopUnderLock(w)
    /\ pending_lock' = None

\* compressed_rosbag = self.compress_rosbag(rosbag, thread_id): the external
\* compressor ends with some outcome.
WorkerCompress(w) ==
    /\ wpc[w] = "compress"
    /\ \E outcome \in CompressOutcomes :
        /\ wbag' = [wbag EXCEPT ![w] = Some(compress_rosbag(Val(widx[w]), outcome))]
        /\ temp_files' = IF outcome.file THEN temp_files \cup {Val(widx[w])}
                         ELSE temp_files
        /\ compress_failed' = IF CompressorFailed(outcome)
                              THEN compress_failed \cup {Val(widx[w])}
                              ELSE compress_failed
    /\ wpc' = [wpc EXCEPT ![w] = "put"]
    /\ UNCHANGED <<pending_rosbags_indices, compressed_rosbags_queue, stop_event,
                   threads, widx, cpc, got>>
    /\ UNCHANGED <<trackerVars, transferVars, uploaderVars, directoryVars, stopVars, lockVars, agentVars, mainVars>>

\* A worker that puts only what a successful compressor run produced.
WorkerPut_drops_failed(w) ==
    /\ wpc[w] = "put"
    /\ compressed_rosbags_queue' =
          IF Val(widx[w]) \in compress_failed
          THEN compressed_rosbags_queue
          ELSE Append(compressed_rosbags_queue, Val(wbag[w]))
    /\ wbag' = [wbag EXCEPT ![w] = None]
    /\ widx' = [widx EXCEPT ![w] = None]
    /\ wpc' = [wpc EXCEPT ![w] = "loop"]
    /\ UNCHANGED <<pending_rosbags_indices, stop_event, threads, temp_files,
                   cpc, got, compress_failed>>
    /\ UNCHANGED <<trackerVars, transferVars, uploaderVars, directoryVars, stopVars, lockVars, agentVars, mainVars>>

\* self.compressed_rosbags_queue.put(compressed_rosbag), then the next turn
\* of the loop.
WorkerPut(w) ==
    /\ wpc[w] = "put"
    /\ compressed_rosbags_queue' = Append(compressed_rosbags_queue, Val(wbag[w]))
    /\ wbag' = [wbag EXCEPT ![w] = None]
    /\ widx' = [widx EXCEPT ![w] = None]
    /\ wpc' = [wpc EXCEPT ![w] = "loop"]
    /\ UNCHANGED <<pending_rosbags_indices, stop_event, threads, temp_files,
                   cpc, got, compress_failed>>
    /\ UNCHANGED <<trackerVars, transferVars, uploaderVars, directoryVars, stopVars, lockVars, agentVars, mainVars>>

\* ---- get_compressed_bag(), called by the consumer again and again.
\* "get": inside queue.get(timeout=0.5) (or about to call it); "have": a
\* Rosbag was returned to the caller; "is_running": get raised Empty;
\* "returned": None was returned.

\* return self.compressed_rosbags_queue.get(timeout=0.5)
ConsumerGet ==
    /\ cpc = "get"
    /\ compressed_rosbags_queue # <<>>
    /\ got' = Append(got, Head(compressed_rosbags_queue))
    /\ compressed_rosbags_queue' = Tail(compressed_rosbags_queue)
    /\ cpc' = "have"
    /\ UNCHANGED <<pending_rosbags_indices, stop_event, threads, wpc, widx,
                   wbag, temp_files, compress_failed>>
    /\ UNCHANGED <<trackerVars, transferVars, uploaderVars, directoryVars, stopVars, lockVars, agentVars, mainVars>>

\* except Empty: the queue stayed empty for the whole timeout.
ConsumerGetTimeout ==
    /\ cpc = "get"
    /\ compressed_rosbags_queue = <<>>
    /\ cpc' = "is_running"
    /\ UNCHANGED <<pending_rosbags_indices, compressed_rosbags_queue, stop_event,
                   threads, wpc, widx, wbag, temp_files, got, compress_failed>>
    /\ UNCHANGED <<trackerVars, transferVars, uploaderVars, directoryVars, stopVars, lockVars, agentVars, mainVars>>

\* if not self.is_running(): return None;  else time.sleep(0.5) and retry.
ConsumerCheckRunning ==
    /\ cpc = "is_running"
    /\ pending_lock = None
    /\ cpc' = IF is_running THEN "get" ELSE "returned"
    /\ UNCHANGED <<pending_rosbags_indices, compressed_rosbags_queue, stop_event,
                   threads, wpc, widx, wbag, temp_files, got, compress_failed>>
    /\ UNCHANGED <<trackerVars, transferVars, uploaderVars, directoryVars, stopVars, lockVars, agentVars, mainVars>>

\* is_running step by step.  with self.pending_lock: entered by the consumer.
ConsumerAcquire ==
    /\ cpc = "is_running"
    /\ pending_lock = None
    /\ pending_lock' = Some(Consumer)
    /\ UNCHANGED <<pipelineVars, stopVars, agentVars, mainVars>>
    /\ UNCHANGED <<trackerVars, transferVars, uploaderVars, directoryVars, agentVars, mainVars>>

ConsumerCheckRunningLocked_without_lock ==
    /\ cpc = "is_running"
    /\ cpc' = IF is_running THEN "get" ELSE "returned"
    /\ UNCHANGED <<pending_rosbags_indices, compressed_rosbags_queue, stop_event,
                   threads, wpc, widx, wbag, temp_files, got, compress_failed>>
    /\ UNCHANGED <<trackerVars, transferVars, uploaderVars, directoryVars, stopVars, lockVars, agentVars, mainVars>>

\* return bool(pending) or any(t.is_alive() ...), leaving the with-block.
ConsumerCheckRunningLocked ==
    /\ cpc = "is_running"
    /\ pending_lock = Some(Consumer)
    /\ pending_lock' = None
    /\ cpc' = IF is_running THEN "get" ELSE "returned"
    /\ UNCHANGED <<pending_rosbags_indices, compressed_rosbags_queue, stop_event,
                   threads, wpc, widx, wbag, temp_files, got, compress_failed>>
    /\ UNCHANGED <<trackerVars, transferVars, uploaderVars, directoryVars, stopVars, agentVars, mainVars>>

\* The caller of get_compressed_bag that got a Rosbag calls it again; so does
\* a caller whose call of stop() has returned.
ConsumerCallAgain ==
    /\ cpc \in {"have", "stop_returned"}
    /\ cpc' = "get"
    /\ UNCHANGED <<pending_rosbags_indices, compressed_rosbags_queue, stop_event,
                   threads, wpc, widx, wbag, temp_files, got, compress_failed>>
    /\ UNCHANGED <<trackerVars, transferVars, uploaderVars, directoryVars, stopVars, lockVars, agentVars, mainVars>>

\* ---- stop(), run by the thread that calls get_compressed_bag.
\* "stop": stop() was called; "join": inside `for t in self.threads`;
\* "stop_returned": stop() has returned.

\* self.stop_event.set()
StopSet ==
    /\ cpc = "stop"
    /\ stop_event' = TRUE
    /\ join_i' = 0
    /\ cpc' = "join"
    /\ UNCHANGED <<pending_rosbags_indices, compressed_rosbags_queue, threads,
                   wpc, widx, wbag, temp_files, got, compress_failed>>
    /\ UNCHANGED <<metadata_exists, temp_directory, current_rosbag_count, stopped,
                   exception, upload_log, sent_commands>>
    /\ UNCHANGED <<trackerVars, transferVars, directoryVars, stopVars, lockVars, agentVars, mainVars>>

\* t.join(timeout=1) returns once thread t has ended.
StopJoin ==
    /\ cpc = "join"
    /\ join_i < NumWorkers
    /\ ~is_alive(join_i)
    /\ join_i' = join_i + 1
    /\ UNCHANGED pipelineVars
    /\ UNCHANGED <<metadata_exists, temp_directory, current_rosbag_count, stopped,
                   exception, upload_log, sent_commands>>
    /\ UNCHANGED <<trackerVars, transferVars, directoryVars, stopVars, lockVars, agentVars, mainVars>>

\* t.join(timeout=1) returns after one second although thread t is alive:
\* t is inside the external compressor, which no flag interrupts and whose
\* duration has no bound.
StopJoinTimeout ==
    /\ cpc = "join"
    /\ join_i < NumWorkers
    /\ wpc[join_i] = "compress"
    /\ join_i' = join_i + 1
    /\ UNCHANGED pipelineVars
    /\ UNCHANGED <<metadata_exists, temp_directory, current_rosbag_count, stopped,
                   exception, upload_log, sent_commands>>
    /\ UNCHANGED <<trackerVars, transferVars, directoryVars, stopVars, lockVars, agentVars, mainVars>>

\* self.threads.clear(), and stop() returns.
StopClear ==
    /\ cpc = "join"
    /\ join_i = NumWorkers
    /\ threads' = {}
    /\ cpc' = "stop_returned"
    /\ UNCHANGED <<pending_rosbags_indices, compressed_rosbags_queue, stop_event,
                   wpc, widx, wbag, temp_files, got, compress_failed>>
    /\ UNCHANGED uploaderVars
    /\ UNCHANGED <<trackerVars, transferVars, directoryVars, stopVars, lockVars, agentVars, mainVars>>

\* A caller of the CompressionManager that calls stop() between two calls of
\* get_compressed_bag.
ConsumerCallStop ==
    /\ cpc = "have"
    /\ cpc' = "stop"
    /\ UNCHANGED <<pending_rosbags_indices, compressed_rosbags_queue, stop_event,
                   threads, wpc, widx, wbag, temp_files, got, compress_failed>>
    /\ UNCHANGED <<trackerVars, transferVars, uploaderVars, directoryVars, stopVars, lockVars, agentVars, mainVars>>

\* __init__ followed by start_compression() for a rosbags_list of n rosbags:
\* every index pending, the queue empty, one thread per worker at the top of
\* its loop.
InitWorkers(n) ==
    /\ pending_rosbags_indices = 0..(n - 1)
    /\ compressed_rosbags_queue = <<>>
    /\ stop_event = FALSE
    /\ threads = Workers
    /\ wpc = [w \in Workers |-> "loop"]
    /\ widx = [w \in Workers |-> None]
    /\ wbag = [w \in Workers |-> None]
    /\ temp_files = {}
    /\ got = <<>>
    /\ compress_failed = {}
    /\ pops_after_stop = [w \in Workers |-> 0]
    /\ pending_lock = None

\* The caller is about to call get_compressed_bag for the first time.
InitPipeline ==
    /\ InitWorkers(NumRosbags)
    /\ cpc = "get"

\* The pipeline while another subsystem is explored: nothing to compress.
RestPipeline ==
    /\ pending_rosbags_indices = {}
    /\ compressed_rosbags_queue = <<>>
    /\ stop_event = FALSE
    /\ threads = {}
    /\ wpc = [w \in Workers |-> "done"]
    /\ widx = [w \in Workers |-> None]
    /\ wbag = [w \in Workers |-> None]
    /\ temp_files = {}
    /\ cpc = "returned"
    /\ got = <<>>
    /\ compress_failed = {}
    /\ pops_after_stop = [w \in Workers |-> 0]
    /\ pending_lock = None

NextPipeline ==
    \/ \E w \in Workers : WorkerLoopTest(w)
    \/ \E w \in Workers : WorkerQueueTest(w)
    \/ \E w \in Workers : WorkerPop(w)
    \/ \E w \in Workers : WorkerCompress(w)
    \/ \E w \in Workers : WorkerPut(w)
    \/ ConsumerGet
    \/ ConsumerGetTimeout
    \/ ConsumerCheckRunning
    \/ ConsumerCallAgain

\* The CompressionManager with the two with-blocks of pending_lock taken
\* step by step: acquire, then body and release.
NextPipelineLock ==
    \/ \E w \in Workers : WorkerLoopTest(w)
    \/ \E w \in Workers : WorkerQueueTest(w)
    \/ \E w \in Workers : WorkerAcquire(w)
    \/ \E w \in Workers : WorkerPopLocked(w)
    \/ \E w \in Workers : WorkerCompress(w)
    \/ \E w \in Workers : WorkerPut(w)
    \/ ConsumerGet
    \/ ConsumerGetTimeout
    \/ ConsumerAcquire
    \/ ConsumerCheckRunningLocked
    \/ ConsumerCallAgain

\* The CompressionManager with a caller that may also call stop().
NextPipelineStop ==
    \/ NextPipeline
    \/ ConsumerCallStop
    \/ StopSet
    \/ StopJoin
    \/ StopJoinTimeout
    \/ StopClear

\* ========================================================================
\* RosbagUploader.process_rosbags_in_directory (upload_rosbags/
\* upload_rosbags.py), the thread that calls get_compressed_bag, and
\* SSHClient.send_command (upload_rosbags/modules/ssh_client.py)
\* ========================================================================

\* What the remote lftp command can do: its exit status and its two output
\* streams.  stderr is the sequence of the messages written to it.
AlreadyExists == "file already exists"
ToolOutcomes ==
    [exit_code : {0, 1},
     stdout : {"out"},
     stderr : {<<>>, <<AlreadyExists>>, <<"Access failed">>}]

\* 'text' in stderr
Contains(stderr, text) == text \in Range(stderr)

\* SSHClient.send_command: return output, output_stderr.  The exit status of
\* the command is not read.
send_command(tool) == <<tool.stdout, tool.stderr>>

\* upload_file, from the reply of send_command to the way it ends: "return",
\* or the name of the exception it raises.
\*   exit_code, stdout, stderr = self.ssh_client.send_command(lftp_cmd)
\* raises ValueError unless the reply has three elements.
upload_file(reply) ==
    IF Len(reply) # 3 THEN "ValueError"
    ELSE LET exit_code == reply[1]
             stderr == reply[3]
         IN  IF Contains(stderr, AlreadyExists) THEN "return"
             ELSE IF exit_code # 0 THEN "RuntimeError"
             ELSE "return"

\* An exception leaves process_rosbags_in_directory; nothing above it
\* catches it, so the process ends and its daemon threads with it.
Raise(name) ==
    /\ cpc' = "raised"
    /\ exception' = Some(name)

ProcessExited == cpc = "raised"

\* temp_directory.rmdir(): removes an empty directory, raises OSError on a
\* directory that has entries.
Rmdir ==
    IF temp_files = {}
    THEN /\ temp_directory' = FALSE
         /\ cpc' = "done"
         /\ UNCHANGED exception
    ELSE /\ Raise("OSError")
         /\ UNCHANGED temp_directory

\* Paths are sequences of parts, relative to params.local_rosbags_directory
\* on the local side and starting with params.cloud_upload_directory on the
\* remote side.
TempDirectoryName == "compressed_rosbags"
MetadataFilePath == <<"recording", "metadata.yaml">>
CompressedPath(idx) == <<"recording", TempDirectoryName, ToString(idx)>>

Parent(path) == SubSeq(path, 1, Len(path) - 1)

\* resolve_remote_destination_path: cloud_base / relative_file_path, without
\* the parts equal to remove_from_path (None: nothing is removed).
resolve_remote_destination_path(local_file_path, remove_from_path) ==
    LET remote_destination == <<"cloud">> \o local_file_path
    IN  IF remove_from_path = None THEN remote_destination
        ELSE SelectSeq(remote_destination,
                       LAMBDA part : part # Val(remove_from_path))

\* An upload that sends the transfer command first.
UploadCommands_transfer_first(remote_destination) ==
    <<[cmd |-> "lftp pget", path |-> remote_destination],
      [cmd |-> "mkdir -p", path |-> Parent(remote_destination)]>>

\* The commands one upload gives to send_command, in order:
\* create_remote_directory(str(remote_destination.parent)), then upload_file.
UploadCommands(remote_destination) ==
    <<[cmd |-> "mkdir -p", path |-> Parent(remote_destination)],
      [cmd |-> "lftp pget", path |-> remote_destination]>>

\* Lines 224-239, before the try block: when metadata.yaml exists,
\* create_remote_directory and upload_file for it.
UploadMetadata ==
    /\ cpc = "metadata"
    /\ IF ~metadata_exists
       THEN /\ cpc' = "get"
            /\ UNCHANGED <<exception, upload_log, sent_commands>>
       ELSE \E tool \in ToolOutcomes :
            LET result == upload_file(send_command(tool))
            IN  /\ upload_log' = Append(upload_log,
                       [file |-> None, tool |-> tool, result |-> result])
                /\ sent_commands' = sent_commands \o UploadCommands(
                       resolve_remote_destination_path(MetadataFilePath, None))
                /\ IF result = "return"
                   THEN cpc' = "get" /\ UNCHANGED exception
                   ELSE Raise(result)
    /\ UNCHANGED <<pending_rosbags_indices, compressed_rosbags_queue, stop_event,
                   threads, wpc, widx, wbag, temp_files, got, compress_failed>>
    /\ UNCHANGED <<metadata_exists, temp_directory, current_rosbag_count, stopped,
                   join_i>>
    /\ UNCHANGED <<trackerVars, transferVars, directoryVars, stopVars, lockVars, agentVars, mainVars>>

\* One turn of the while loop after get_compressed_bag returned a Rosbag:
\* create_remote_directory, upload_file, current_rosbag_count += 1,
\* comp_rosbag.absolute_path.unlink() (FileNotFoundError when the file is
\* not there).
UploadBag ==
    /\ cpc = "have"
    /\ LET comp_rosbag == got[Len(got)]
       IN  \E tool \in ToolOutcomes :
           LET result == upload_file(send_command(tool))
           IN  /\ upload_log' = Append(upload_log,
                      [file |-> Some(comp_rosbag.absolute_path),
                       tool |-> tool, result |-> result])
               /\ sent_commands' = sent_commands \o UploadCommands(
                      resolve_remote_destination_path(
                          CompressedPath(comp_rosbag.absolute_path),
                          Some(TempDirectoryName)))
               /\ IF result # "return"
                  THEN /\ Raise(result)
                       /\ UNCHANGED <<current_rosbag_count, temp_files>>
                  ELSE /\ current_rosbag_count' = current_rosbag_count + 1
                       /\ IF comp_rosbag.absolute_path \in temp_files
                          THEN /\ temp_files' =
                                    temp_files \ {comp_rosbag.absolute_path}
                               /\ cpc' = "get"
                               /\ UNCHANGED exception
                          ELSE /\ Raise("FileNotFoundError")
                               /\ UNCHANGED temp_files
    /\ UNCHANGED <<pending_rosbags_indices, compressed_rosbags_queue, stop_event,
                   threads, wpc, widx, wbag, got, compress_failed>>
    /\ UNCHANGED <<metadata_exists, temp_directory, stopped, join_i>>
    /\ UNCHANGED <<trackerVars, transferVars, directoryVars, stopVars, lockVars, agentVars, mainVars>>

\* get_compressed_bag returned None: break, then temp_directory.rmdir() and
\* return current_rosbag_count, total_uploading_time.
UploaderRmdir ==
    /\ cpc = "returned"
    /\ Rmdir
    /\ UNCHANGED <<pending_rosbags_indices, compressed_rosbags_queue, stop_event,
                   threads, wpc, widx, wbag, temp_files, got, compress_failed>>
    /\ UNCHANGED <<metadata_exists, current_rosbag_count, stopped, join_i,
                   upload_log, sent_commands>>
    /\ UNCHANGED <<trackerVars, transferVars, directoryVars, stopVars, lockVars, agentVars, mainVars>>

\* Ctrl-C while the thread is inside the try block: the handler sets
\* self.stopped and calls compression_manager.stop().  Before the try block
\* (the metadata upload) nothing handles it.
KeyboardInterrupt ==
    /\ cpc \in {"metadata", "get", "is_running", "have", "returned"}
    /\ IF cpc = "metadata"
       THEN /\ Raise("KeyboardInterrupt")
            /\ UNCHANGED stopped
       ELSE /\ stopped' = TRUE
            /\ cpc' = "stop"
            /\ UNCHANGED exception
    /\ UNCHANGED <<pending_rosbags_indices, compressed_rosbags_queue, stop_event,
                   threads, wpc, widx, wbag, temp_files, got, compress_failed>>
    /\ UNCHANGED <<metadata_exists, temp_directory, current_rosbag_count, join_i,
                   upload_log, sent_commands>>
    /\ UNCHANGED <<trackerVars, transferVars, directoryVars, stopVars, lockVars, agentVars, mainVars>>

\* The handler after stop() has returned: temp_directory.rmdir(), then
\* return current_rosbag_count, total_uploading_time.
InterruptedRmdir ==
    /\ cpc = "stop_returned"
    /\ Rmdir
    /\ UNCHANGED <<pending_rosbags_indices, compressed_rosbags_queue, stop_event,
                   threads, wpc, widx, wbag, temp_files, got, compress_failed>>
    /\ UNCHANGED <<metadata_exists, current_rosbag_count, stopped, join_i,
                   upload_log, sent_commands>>
    /\ UNCHANGED <<trackerVars, transferVars, directoryVars, stopVars, lockVars, agentVars, mainVars>>

\* temp_directory.mkdir(), CompressionManager(...), start_compression().
\* rosbags_list is empty for a directory whose only .mcap files are in a
\* temp directory (get_rosbags_from_directory filters them out).
InitUploader ==
    /\ \E n \in 0..NumRosbags : InitWorkers(n)
    /\ cpc = "metadata"
    /\ metadata_exists \in BOOLEAN
    /\ temp_directory = TRUE
    /\ current_rosbag_count = 0
    /\ stopped = FALSE
    /\ join_i = 0
    /\ exception = None
    /\ upload_log = <<>>
    /\ sent_commands = <<>>

\* No directory is being processed.
RestUploader ==
    /\ metadata_exists = FALSE
    /\ temp_directory = FALSE
    /\ current_rosbag_count = 0
    /\ stopped = FALSE
    /\ join_i = 0
    /\ exception = None
    /\ upload_log = <<>>
    /\ sent_commands = <<>>

\* The worker threads run as long as the process does.
NextUploader ==
    \/ \E w \in Workers : ~ProcessExited /\ WorkerLoopTest(w)
    \/ \E w \in Workers : ~ProcessExited /\ WorkerQueueTest(w)
    \/ \E w \in Workers : ~ProcessExited /\ WorkerPop(w)
    \/ \E w \in Workers : ~ProcessExited /\ WorkerCompress(w)
    \/ \E w \in Workers : ~ProcessExited /\ WorkerPut(w)
    \/ ConsumerGet
    \/ ConsumerGetTimeout
    \/ ConsumerCheckRunning
    \/ UploadMetadata
    \/ UploadBag
    \/ UploaderRmdir
    \/ KeyboardInterrupt
    \/ StopSet
    \/ StopJoin
    \/ StopJoinTimeout
    \/ StopClear
    \/ InterruptedRmdir

\* ========================================================================
\* upload_vehicle_data.py: the compress_and_transfer_rosbag tasks that
\* process_directory submits to its ThreadPoolExecutor, one per rosbag of
\* rosbag_list
\* ========================================================================
NumBags == 2              \* len(rosbag_list)
ParallelProcesses == 2    \* config['parallel_processes']
MaxUploadAttempts == 3    \* config['upload_attempts']
DiskRetries == 3          \* check_disk_space(..., retries=3, ...)

Bags == 1..NumBags

\* The tasks a pool thread is running.
Running == {i \in Bags : tpc[i] \notin {"queued", "done"}}

Return(i, value) ==
    /\ tpc' = [tpc EXCEPT ![i] = "done"]
    /\ task_result' = [task_result EXCEPT ![i] = Some(value)]

\* s without its elements equal to x.
Without(s, x) == Restrict(s, Range(s) \ {x})

\* ThreadPoolExecutor(max_workers=parallel_processes): a free pool thread
\* takes the oldest submitted task and calls compress_and_transfer_rosbag.
TaskStart(i) ==
    /\ tpc[i] = "queued"
    /\ \A j \in Bags : j < i => tpc[j] # "queued"
    /\ Cardinality(Running) < ParallelProcesses
    /\ tpc' = [tpc EXCEPT ![i] = "disk"]
    /\ UNCHANGED <<disk_attempt, attempts, success, task_result, remote_temp,
                   rsync_calls, rm_result>>
    /\ UNCHANGED <<trackerVars, pipelineVars, uploaderVars, directoryVars, stopVars, lockVars, agentVars, mainVars>>

\* check_disk_space: one turn of `for attempt in range(retries)`.
\*   "enough":       file_size <= available_space, return True;
\*   "insufficient": delete_oldest_mcap removes the oldest .mcap of the temp
\*                   directory (if any), then the next turn;
\*   "error":        a command failed (CalledProcessError), then the next turn.
\* After the last turn check_disk_space returns False and so does the task.
CheckDiskSpace(i) ==
    /\ tpc[i] = "disk"
    /\ \E outcome \in {"enough", "insufficient", "error"} :
        IF outcome = "enough"
        THEN /\ tpc' = [tpc EXCEPT ![i] = "compress"]
             /\ UNCHANGED <<disk_attempt, task_result, remote_temp>>
        ELSE /\ remote_temp' = IF outcome = "insufficient" /\ remote_temp # <<>>
                               THEN Tail(remote_temp) ELSE remote_temp
             /\ disk_attempt' = [disk_attempt EXCEPT ![i] = @ + 1]
             /\ IF disk_attempt[i] + 1 >= DiskRetries
                THEN Return(i, FALSE)
                ELSE UNCHANGED <<tpc, task_result>>
    /\ UNCHANGED <<attempts, success, rsync_calls, rm_result>>
    /\ UNCHANGED <<trackerVars, pipelineVars, uploaderVars, directoryVars, stopVars, lockVars, agentVars, mainVars>>

\* run_ssh_command(compress_cmd): the compressed file appears in the temp
\* directory, or the command fails and the task returns False.
Compress(i) ==
    /\ tpc[i] = "compress"
    /\ \E ok \in BOOLEAN :
        IF ok
        THEN /\ remote_temp' = Append(Without(remote_temp, i), i)
             /\ tpc' = [tpc EXCEPT ![i] = "rsync"]
             /\ UNCHANGED task_result
        ELSE /\ Return(i, FALSE)
             /\ UNCHANGED remote_temp
    /\ UNCHANGED <<disk_attempt, attempts, success, rsync_calls, rm_result>>
    /\ UNCHANGED <<trackerVars, pipelineVars, uploaderVars, directoryVars, stopVars, lockVars, agentVars, mainVars>>

\* while attempts < max_upload_attempts:
retry_allowed_off_by_one(n) == n <= MaxUploadAttempts

retry_allowed(n) == n < MaxUploadAttempts

\* One turn of the retry loop: subprocess.run(rsync_cmd, check=True) either
\* succeeds (success = True; break) or raises (attempts += 1).  rsync cannot
\* succeed when the compressed file is no longer in the temp directory.
RsyncAttempt(i) ==
    /\ tpc[i] = "rsync"
    /\ retry_allowed(attempts[i])
    /\ rsync_calls' = [rsync_calls EXCEPT ![i] = @ + 1]
    /\ \E ok \in {b \in BOOLEAN : b => i \in Range(remote_temp)} :
        IF ok
        THEN /\ success' = [success EXCEPT ![i] = TRUE]
             /\ tpc' = [tpc EXCEPT ![i] = "rm"]
             /\ UNCHANGED attempts
        ELSE /\ attempts' = [attempts EXCEPT ![i] = @ + 1]
             /\ UNCHANGED <<success, tpc>>
    /\ UNCHANGED <<disk_attempt, task_result, remote_temp, rm_result>>
    /\ UNCHANGED <<trackerVars, pipelineVars, uploaderVars, directoryVars, stopVars, lockVars, agentVars, mainVars>>

\* The loop test fails: `if not success:` ... return False.
RsyncGiveUp(i) ==
    /\ tpc[i] = "rsync"
    /\ ~retry_allowed(attempts[i])
    /\ Return(i, FALSE)
    /\ UNCHANGED <<disk_attempt, attempts, success, remote_temp, rsync_calls,
                   rm_result>>
    /\ UNCHANGED <<trackerVars, pipelineVars, uploaderVars, directoryVars, stopVars, lockVars, agentVars, mainVars>>

\* run_ssh_command(f'rm {remote_compressed_path}'): return True when it
\* succeeds, False when it raises.  It cannot succeed on a missing file.
RemoveCompressed(i) ==
    /\ tpc[i] = "rm"
    /\ \E ok \in {b \in BOOLEAN : b => i \in Range(remote_temp)} :
        /\ rm_result' = [rm_result EXCEPT ![i] = Some(ok)]
        /\ remote_temp' = IF ok THEN Without(remote_temp, i) ELSE remote_temp
        /\ Return(i, ok)
    /\ UNCHANGED <<disk_attempt, attempts, success, rsync_calls>>
    /\ UNCHANGED <<trackerVars, pipelineVars, uploaderVars, directoryVars, stopVars, lockVars, agentVars, mainVars>>

\* The futures have been submitted, none has started.
InitTransfer ==
    /\ tpc = [i \in Bags |-> "queued"]
    /\ disk_attempt = [i \in Bags |-> 0]
    /\ attempts = [i \in Bags |-> 0]
    /\ success = [i \in Bags |-> FALSE]
    /\ task_result = [i \in Bags |-> None]
    /\ remote_temp = <<>>
    /\ rsync_calls = [i \in Bags |-> 0]
    /\ rm_result = [i \in Bags |-> None]

\* The transfer while another subsystem is explored: no task submitted.
RestTransfer ==
    /\ tpc = [i \in Bags |-> "done"]
    /\ disk_attempt = [i \in Bags |-> 0]
    /\ attempts = [i \in Bags |-> 0]
    /\ success = [i \in Bags |-> FALSE]
    /\ task_result = [i \in Bags |-> None]
    /\ remote_temp = <<>>
    /\ rsync_calls = [i \in Bags |-> 0]
    /\ rm_result = [i \in Bags |-> None]

NextTransfer ==
    \/ \E i \in Bags : TaskStart(i)
    \/ \E i \in Bags : CheckDiskSpace(i)
    \/ \E i \in Bags : Compress(i)
    \/ \E i \in Bags : RsyncAttempt(i)
    \/ \E i \in Bags : RsyncGiveUp(i)
    \/ \E i \in Bags : RemoveCompressed(i)

\* ------------------------------------------------------------------------
\* process_directory from the submission of the tasks to its return.
\* "collect": inside `for future in futures`; "clean_up": at
\* `if config['clean_up']`; "finally": in the finally block; "returned": the
\* result dict was returned; "raised": an exception left the function.
\* ------------------------------------------------------------------------

\* The values that `if result:` lets through, in the order of futures.
RECURSIVE TruthyResults(_)
TruthyResults(i) ==
    IF i > NumBags THEN <<>>
    ELSE (IF Val(task_result[i]) THEN <<Val(task_result[i])>> ELSE <<>>)
         \o TruthyResults(i + 1)

\* for future in futures: result = future.result()
\*     if result: successfully_uploaded_files.append(result)
\* future.result() waits for its task; the loop ends when all have ended.
CollectResults ==
    /\ pdpc = "collect"
    /\ \A i \in Bags : tpc[i] = "done"
    /\ successfully_uploaded_files' = TruthyResults(1)
    /\ pdpc' = IF clean_up THEN "clean_up" ELSE "finally"
    /\ UNCHANGED <<clean_up, remote_temp_directory, source_files, pd_exception>>
    /\ UNCHANGED <<trackerVars, pipelineVars, transferVars, uploaderVars, stopVars, lockVars, agentVars, mainVars>>

\* The path of the i-th rosbag of rosbag_list, and the text an f-string
\* makes of a task's return value.
RosbagPath(i) == <<"rosbag", i>>
Str(result) == IF result THEN <<"True">> ELSE <<"False">>

\* for rosbag in successfully_uploaded_files: delete_remote_file(rosbag),
\* which runs f'rm {file_path}'.  The elements are the tasks' return values
\* (True), so the command is `rm True`: whether it fails depends on the
\* remote working directory.  A failure (CalledProcessError) leaves the try
\* block.
CleanUp ==
    /\ pdpc = "clean_up"
    /\ \E ok \in {b \in BOOLEAN : successfully_uploaded_files = <<>> => b} :
        pd_exception' = IF ok THEN None ELSE Some("CalledProcessError")
    /\ source_files' =
          source_files \ {Str(rosbag) : rosbag \in Range(successfully_uploaded_files)}
    /\ pdpc' = "finally"
    /\ UNCHANGED <<clean_up, successfully_uploaded_files, remote_temp_directory>>
    /\ UNCHANGED <<trackerVars, pipelineVars, transferVars, uploaderVars, stopVars, lockVars, agentVars, mainVars>>

\* finally: delete_remote_temp_directory, which runs `rm -rf
\* {remote_directory}/temp`: the directory goes with all it contains.  When
\* the ssh command fails the CalledProcessError leaves the function.
Finally ==
    /\ pdpc = "finally"
    /\ \E ok \in BOOLEAN :
        IF ok
        THEN /\ remote_temp' = <<>>
             /\ remote_temp_directory' = FALSE
             /\ pdpc' = IF pd_exception = None THEN "returned" ELSE "raised"
             /\ UNCHANGED pd_exception
        ELSE /\ pdpc' = "raised"
             /\ pd_exception' = Some("CalledProcessError")
             /\ UNCHANGED <<remote_temp, remote_temp_directory>>
    /\ UNCHANGED <<clean_up, successfully_uploaded_files, source_files>>
    /\ UNCHANGED <<tpc, disk_attempt, attempts, success, task_result,
                   rsync_calls, rm_result>>
    /\ UNCHANGED <<trackerVars, pipelineVars, uploaderVars, stopVars, lockVars, agentVars, mainVars>>

\* create_remote_temp_directory has run and the tasks were submitted.
InitDirectory ==
    /\ pdpc = "collect"
    /\ clean_up \in BOOLEAN
    /\ successfully_uploaded_files = <<>>
    /\ remote_temp_directory = TRUE
    /\ source_files = {RosbagPath(i) : i \in Bags}
    /\ pd_exception = None

\* No directory is being processed.
RestDirectory ==
    /\ pdpc = "returned"
    /\ clean_up = FALSE
    /\ successfully_uploaded_files = <<>>
    /\ remote_temp_directory = FALSE
    /\ source_files = {}
    /\ pd_exception = None

NextDirectory ==
    \/ NextTransfer
    \/ CollectResults
    \/ CleanUp
    \/ Finally

\* ========================================================================
\* upload_vehicle_data.py: main's loop over the subdirectories and
\* process_directory from its first line to the submission of the tasks.
\* main_pc: "loop": at `for subdirectory in subdirectories`;
\* "in_directory": inside process_directory; "finished": the end-of-run
\* summary was logged; "aborted": an exception left main.
\* pdpc before "collect": "find_metadata", "read_metadata", "count_guard".
\* ========================================================================
NumSubdirectories == 2    \* len(subdirectories)

\* process_directory is called: create_remote_temp_directory, then
\* successfully_uploaded_files = [] and total_files = 0.  No task of this
\* directory exists yet.
MainCallProcessDirectory ==
    /\ main_pc = "loop"
    /\ subdirectory <= NumSubdirectories
    /\ main_pc' = "in_directory"
    /\ pdpc' = "find_metadata"
    /\ successfully_uploaded_files' = <<>>
    /\ remote_temp_directory' = TRUE
    /\ source_files' = {RosbagPath(i) : i \in Bags}
    /\ pd_exception' = None
    /\ total_files' = 0
    /\ metadata_path' = None
    /\ expected_bags' = 0
    /\ submissions' = [i \in Bags |-> 0]
    /\ tpc' = [i \in Bags |-> "new"]
    /\ disk_attempt' = [i \in Bags |-> 0]
    /\ attempts' = [i \in Bags |-> 0]
    /\ success' = [i \in Bags |-> FALSE]
    /\ task_result' = [i \in Bags |-> None]
    /\ remote_temp' = <<>>
    /\ rsync_calls' = [i \in Bags |-> 0]
    /\ rm_result' = [i \in Bags |-> None]
    /\ UNCHANGED <<clean_up, subdirectory, total_uploaded_files,
                   main_total_files, global_rosbag_counter>>
    /\ UNCHANGED <<trackerVars, pipelineVars, uploaderVars, stopVars, lockVars,
                   agentVars>>

\* metadata_path = find_metadata_file(...): the first line `find` printed,
\* or None.  When it is None a warning is logged and the function goes on:
\* os.path.relpath(None, ...) raises TypeError, which leaves the try block
\* through finally.
FindMetadata ==
    /\ pdpc = "find_metadata"
    /\ \E path \in {None, Some(<<"metadata.yaml">>)} :
        /\ metadata_path' = path
        /\ IF path = None
           THEN /\ pd_exception' = Some("TypeError")
                /\ pdpc' = "finally"
           ELSE /\ pdpc' = "read_metadata"
                /\ UNCHANGED pd_exception
    /\ UNCHANGED <<clean_up, successfully_uploaded_files, remote_temp_directory,
                   source_files>>
    /\ UNCHANGED <<main_pc, subdirectory, expected_bags, total_files, submissions,
                   total_uploaded_files, main_total_files, global_rosbag_counter>>
    /\ UNCHANGED <<trackerVars, pipelineVars, transferVars, uploaderVars,
                   stopVars, lockVars, agentVars>>

\* copy_metadata_file and read_metadata: the manifest lists as many files as
\* the directory holds, or one fewer.
ReadMetadata ==
    /\ pdpc = "read_metadata"
    /\ \E n \in {NumBags - 1, NumBags} : expected_bags' = n
    /\ pdpc' = "count_guard"
    /\ UNCHANGED <<clean_up, successfully_uploaded_files, remote_temp_directory,
                   source_files, pd_exception>>
    /\ UNCHANGED <<main_pc, subdirectory, metadata_path, total_files, submissions,
                   total_uploaded_files, main_total_files, global_rosbag_counter>>
    /\ UNCHANGED <<trackerVars, pipelineVars, transferVars, uploaderVars,
                   stopVars, lockVars, agentVars>>

\* A guard that submits the tasks whatever the manifest says.
CountGuard_always_submits ==
    /\ pdpc = "count_guard"
    /\ total_files' = NumBags
    /\ submissions' = [i \in Bags |-> submissions[i] + 1]
    /\ tpc' = [i \in Bags |-> "queued"]
    /\ pdpc' = "collect"
    /\ UNCHANGED <<disk_attempt, attempts, success, task_result, remote_temp,
                   rsync_calls, rm_result>>
    /\ UNCHANGED <<clean_up, successfully_uploaded_files, remote_temp_directory,
                   source_files, pd_exception>>
    /\ UNCHANGED <<main_pc, subdirectory, metadata_path, expected_bags,
                   total_uploaded_files, main_total_files, global_rosbag_counter>>
    /\ UNCHANGED <<trackerVars, pipelineVars, uploaderVars, stopVars, lockVars,
                   agentVars>>

\* if len(rosbag_list) != len(expected_bags): return {...} (through
\* finally); else total_files = len(rosbag_list) and one executor.submit per
\* element of rosbag_list.
CountGuard ==
    /\ pdpc = "count_guard"
    /\ IF NumBags # expected_bags
       THEN /\ pdpc' = "finally"
            /\ UNCHANGED <<total_files, submissions, tpc>>
       ELSE /\ total_files' = NumBags
            /\ submissions' = [i \in Bags |-> submissions[i] + 1]
            /\ tpc' = [i \in Bags |-> "queued"]
            /\ pdpc' = "collect"
    /\ UNCHANGED <<disk_attempt, attempts, success, task_result, remote_temp,
                   rsync_calls, rm_result>>
    /\ UNCHANGED <<clean_up, successfully_uploaded_files, remote_temp_directory,
                   source_files, pd_exception>>
    /\ UNCHANGED <<main_pc, subdirectory, metadata_path, expected_bags,
                   total_uploaded_files, main_total_files, global_rosbag_counter>>
    /\ UNCHANGED <<trackerVars, pipelineVars, uploaderVars, stopVars, lockVars,
                   agentVars>>

\* The dict process_directory returns.  global_rosbag_counter was raised by
\* len(successfully_uploaded_files) on the path through the executor; on the
\* early return that list is empty.
ProcessDirectoryResult ==
    [uploaded_files |-> Len(successfully_uploaded_files),
     total_files |-> total_files,
     global_rosbag_counter |->
         global_rosbag_counter + Len(successfully_uploaded_files)]

\* main after process_directory returned: the three sums, then the next
\* subdirectory.
MainTakeResult ==
    /\ main_pc = "in_directory"
    /\ pdpc = "returned"
    /\ total_uploaded_files' =
          total_uploaded_files + ProcessDirectoryResult.uploaded_files
    /\ main_total_files' = main_total_files + ProcessDirectoryResult.total_files
    /\ global_rosbag_counter' = ProcessDirectoryResult.global_rosbag_counter
    /\ subdirectory' = subdirectory + 1
    /\ main_pc' = "loop"
    /\ UNCHANGED <<metadata_path, expected_bags, total_files, submissions>>
    /\ UNCHANGED <<trackerVars, pipelineVars, transferVars, uploaderVars,
                   directoryVars, stopVars, lockVars, agentVars>>

\* An exception left process_directory: main has no handler, the run ends
\* with a traceback.
MainAborted ==
    /\ main_pc = "in_directory"
    /\ pdpc = "raised"
    /\ main_pc' = "aborted"
    /\ UNCHANGED <<subdirectory, metadata_path, expected_bags, total_files,
                   submissions, total_uploaded_files, main_total_files,
                   global_rosbag_counter>>
    /\ UNCHANGED <<trackerVars, pipelineVars, transferVars, uploaderVars,
                   directoryVars, stopVars, lockVars, agentVars>>

\* After the loop: logger.info('Uploading finished. ...').
MainSummary ==
    /\ main_pc = "loop"
    /\ subdirectory > NumSubdirectories
    /\ main_pc' = "finished"
    /\ UNCHANGED <<subdirectory, metadata_path, expected_bags, total_files,
                   submissions, total_uploaded_files, main_total_files,
                   global_rosbag_counter>>
    /\ UNCHANGED <<trackerVars, pipelineVars, transferVars, uploaderVars,
                   directoryVars, stopVars, lockVars, agentVars>>

\* main has been confirmed by the user and is about to enter its loop.
InitMain ==
    /\ main_pc = "loop"
    /\ subdirectory = 1
    /\ metadata_path = None
    /\ expected_bags = 0
    /\ total_files = 0
    /\ submissions = [i \in Bags |-> 0]
    /\ total_uploaded_files = 0
    /\ main_total_files = 0
    /\ global_rosbag_counter = 0

\* main while another subsystem is explored.
RestMain ==
    /\ main_pc = "in_directory"
    /\ subdirectory = 1
    /\ metadata_path = None
    /\ expected_bags = 0
    /\ total_files = 0
    /\ submissions = [i \in Bags |-> 0]
    /\ total_uploaded_files = 0
    /\ main_total_files = 0
    /\ global_rosbag_counter = 0

\* One call of process_directory, from its first line to its end.
NextProcessDirectory ==
    \/ MainCallProcessDirectory
    \/ FindMetadata
    \/ ReadMetadata
    \/ CountGuard
    \/ NextDirectory

\* main's loop over the subdirectories.
NextMain ==
    \/ NextProcessDirectory
    \/ MainTakeResult
    \/ MainAborted
    \/ MainSummary

\* ========================================================================
\* S3RosbagBackupAgent (s3_backup_agent.py): enqueue and the uploading
\* Process running _backup_routine
\* ========================================================================
NumRecordings == 4        \* recordings passed to enqueue, in this order

Recordings == 1..NumRecordings

Processes == 1..Len(backup_pc)

\* Process.is_alive()
process_is_alive(p) == backup_pc[p] # "exited"

\* self.to_backup_queue.put(recording_path)
EnqueuePut ==
    /\ enqueue_pc = "idle"
    /\ enqueued < NumRecordings
    /\ enqueued' = enqueued + 1
    /\ to_backup_queue' = Append(to_backup_queue, enqueued + 1)
    /\ enqueue_pc' = "check"
    /\ UNCHANGED <<uploading_process, backup_pc, backup_item, backed_up>>
    /\ UNCHANGED <<trackerVars, pipelineVars, transferVars, uploaderVars,
                   directoryVars, stopVars, lockVars, mainVars>>

\* if not self.uploading_process or not self.uploading_process.is_alive():
\*     self._start_uploading_process()
EnqueueCheck ==
    /\ enqueue_pc = "check"
    /\ IF uploading_process = None
          \/ ~process_is_alive(Val(uploading_process))
       THEN /\ backup_pc' = Append(backup_pc, "get")
            /\ backup_item' = Append(backup_item, None)
            /\ uploading_process' = Some(Len(backup_pc) + 1)
       ELSE UNCHANGED <<backup_pc, backup_item, uploading_process>>
    /\ enqueue_pc' = "idle"
    /\ UNCHANGED <<to_backup_queue, enqueued, backed_up>>
    /\ UNCHANGED <<trackerVars, pipelineVars, transferVars, uploaderVars,
                   directoryVars, stopVars, lockVars, mainVars>>

\* rosbag_recording = self.to_backup_queue.get(timeout=1) returns an item.
BackupGet(p) ==
    /\ backup_pc[p] = "get"
    /\ to_backup_queue # <<>>
    /\ backup_item' = [backup_item EXCEPT ![p] = Some(Head(to_backup_queue))]
    /\ to_backup_queue' = Tail(to_backup_queue)
    /\ backup_pc' = [backup_pc EXCEPT ![p] = "upload"]
    /\ UNCHANGED <<uploading_process, enqueue_pc, enqueued, backed_up>>
    /\ UNCHANGED <<trackerVars, pipelineVars, transferVars, uploaderVars,
                   directoryVars, stopVars, lockVars, mainVars>>

\* The get found the queue empty for the whole timeout: queue.Empty is
\* raised and handled (log, break); the Process has not exited yet.
BackupGetTimeout(p) ==
    /\ backup_pc[p] = "get"
    /\ to_backup_queue = <<>>
    /\ backup_pc' = [backup_pc EXCEPT ![p] = "timed_out"]
    /\ UNCHANGED <<to_backup_queue, uploading_process, backup_item,
                   enqueue_pc, enqueued, backed_up>>
    /\ UNCHANGED <<trackerVars, pipelineVars, transferVars, uploaderVars,
                   directoryVars, stopVars, lockVars, mainVars>>

\* self._upload_recording(rosbag_recording), taken to return;
\* back to the get.
BackupUpload(p) ==
    /\ backup_pc[p] = "upload"
    /\ backed_up' = backed_up \cup backup_item[p]
    /\ backup_item' = [backup_item EXCEPT ![p] = None]
    /\ backup_pc' = [backup_pc EXCEPT ![p] = "get"]
    /\ UNCHANGED <<to_backup_queue, uploading_process, enqueue_pc, enqueued>>
    /\ UNCHANGED <<trackerVars, pipelineVars, transferVars, uploaderVars,
                   directoryVars, stopVars, lockVars, mainVars>>

\* _backup_routine has returned and the Process ends: is_alive() turns False.
BackupExit(p) ==
    /\ backup_pc[p] = "timed_out"
    /\ backup_pc' = [backup_pc EXCEPT ![p] = "exited"]
    /\ UNCHANGED <<to_backup_queue, uploading_process, backup_item,
                   enqueue_pc, enqueued, backed_up>>
    /\ UNCHANGED <<trackerVars, pipelineVars, transferVars, uploaderVars,
                   directoryVars, stopVars, lockVars, mainVars>>

\* S3RosbagBackupAgent.__init__
InitAgent ==
    /\ to_backup_queue = <<>>
    /\ uploading_process = None
    /\ backup_pc = <<>>
    /\ backup_item = <<>>
    /\ enqueue_pc = "idle"
    /\ enqueued = 0
    /\ backed_up = {}

\* The agent while another subsystem is explored: never constructed.
RestAgent == InitAgent

NextAgent ==
    \/ EnqueuePut
    \/ EnqueueCheck
    \/ \E p \in Processes : BackupGet(p)
    \/ \E p \in Processes : BackupGetTimeout(p)
    \/ \E p \in Processes : BackupUpload(p)
    \/ \E p \in Processes : BackupExit(p)

\* ========================================================================
\* Specifications
\* ========================================================================
InitSpecTracker ==
    InitTracker /\ RestPipeline /\ RestTransfer /\ RestUploader /\ RestDirectory
    /\ RestAgent /\ RestMain

SpecTracker == InitSpecTracker /\ [][NextTracker]_vars

InitSpecPipeline ==
    InitPipeline /\ RestTracker /\ RestTransfer /\ RestUploader /\ RestDirectory
    /\ RestAgent /\ RestMain

SpecPipeline == InitSpecPipeline /\ [][NextPipeline]_vars

SpecPipelineLock == InitSpecPipeline /\ [][NextPipelineLock]_vars

InitSpecTransfer ==
    InitTransfer /\ RestTracker /\ RestPipeline /\ RestUploader /\ RestDirectory
    /\ RestAgent /\ RestMain

SpecTransfer == InitSpecTransfer /\ [][NextTransfer]_vars

\* The tracker when metadata.yaml files can be malformed.
InitSpecTrackerMalformed ==
    InitTracker /\ RestPipeline /\ RestTransfer /\ RestUploader /\ RestDirectory
    /\ RestAgent /\ RestMain

SpecTrackerMalformed == InitSpecTrackerMalformed /\ [][NextTrackerMalformed]_vars

\* The CompressionManager whose caller may call stop().
InitSpecPipelineStop ==
    InitPipeline /\ RestTracker /\ RestTransfer /\ RestUploader /\ RestDirectory
    /\ RestAgent /\ RestMain

SpecPipelineStop == InitSpecPipelineStop /\ [][NextPipelineStop]_vars

\* The same under fair scheduling: a thread that can take a step of Python
\* code takes it, and stop() proceeds; only the external compressor may run
\* for ever, and the caller may stop calling.
FairnessStop ==
    /\ \A w \in Workers :
          /\ WF_vars(WorkerLoopTest(w))
          /\ WF_vars(WorkerQueueTest(w))
          /\ WF_vars(WorkerPop(w))
          /\ WF_vars(WorkerPut(w))
    /\ WF_vars(StopSet)
    /\ WF_vars(StopJoin)
    /\ WF_vars(StopJoinTimeout)
    /\ WF_vars(StopClear)

SpecPipelineStopFair ==
    InitSpecPipelineStop /\ [][NextPipelineStop]_vars /\ FairnessStop

\* upload_rosbags.py processing one recording directory.
InitSpecUploader ==
    InitUploader /\ RestTracker /\ RestTransfer /\ RestDirectory /\ RestAgent
    /\ RestMain

SpecUploader == InitSpecUploader /\ [][NextUploader]_vars

\* upload_vehicle_data.py processing one recording directory.
InitSpecDirectory ==
    InitTransfer /\ InitDirectory /\ RestTracker /\ RestPipeline /\ RestUploader
    /\ RestAgent /\ RestMain

SpecDirectory == InitSpecDirectory /\ [][NextDirectory]_vars

\* Before the first call of process_directory; config['clean_up'] is either.
InitSpecMain ==
    /\ InitMain /\ RestTransfer
    /\ pdpc = "returned"
    /\ clean_up \in BOOLEAN
    /\ successfully_uploaded_files = <<>>
    /\ remote_temp_directory = FALSE
    /\ source_files = {}
    /\ pd_exception = None
    /\ RestTracker /\ RestPipeline /\ RestUploader /\ RestAgent

SpecProcessDirectory == InitSpecMain /\ [][NextProcessDirectory]_vars

SpecMain == InitSpecMain /\ [][NextMain]_vars

InitSpecAgent ==
    InitAgent /\ RestTracker /\ RestPipeline /\ RestTransfer /\ RestUploader
    /\ RestDirectory /\ RestMain

SpecAgent == InitSpecAgent /\ [][NextAgent]_vars

\* ========================================================================
\* Properties of the tracker (checked under SpecTracker)
\* ========================================================================
PathsOf(d) == {p \in Paths : p.parent = d}

\* The events of directory d, in delivery order.
EventsOf(d) == Restrict(events, PathsOf(d))

\* The position in events of the last event of directory d (0 when none).
LastIndexOf(d) ==
    LET idx == {i \in DOMAIN events : events[i].parent = d}
    IN  IF idx = {} THEN 0 ELSE CHOOSE i \in idx : \A j \in idx : j <= i

\* The publications of directory d.
PutsOf(d) == {i \in DOMAIN putLog : putLog[i].dir = d}

\* The expected set E the directory's manifest describes.
ManifestSet(d) == {[parent |-> d, name |-> n] : n \in Range(manifest[d])}

\* Manifest event plus one event per file of E.
RecordingPaths(d) == ManifestSet(d) \cup {MetadataPath(d)}

IsPermutationOfRecording(s, d) ==
    /\ Len(s) = Cardinality(RecordingPaths(d))
    /\ Range(s) = RecordingPaths(d)

PublishedOnceAtLastEvent(d) ==
    /\ Cardinality(PutsOf(d)) = 1
    /\ \A i \in PutsOf(d) : putLog[i].at = LastIndexOf(d)

\* C1: for every permutation of the N+1 close events of one recording (the
\* manifest event and one event per expected file), the directory is put on
\* the completion queue exactly once, while the last event is processed.
C1_AnyPermutationCompletesOnce ==
    \A d \in Dirs :
        IsPermutationOfRecording(EventsOf(d), d) => PublishedOnceAtLastEvent(d)

\* C5: the completion test is evaluated after a manifest update too: when the
\* received set already equals the expected set as the manifest arrives, the
\* manifest event publishes the directory and drops its map entry.
C5_Step ==
    \A d \in Dirs :
        ( /\ events' = Append(events, MetadataPath(d))
          /\ d \in DOMAIN rosbags_directories
          /\ Range(rosbags_directories[d].received_rosbags) = ManifestSet(d) )
        => ( /\ rosbag_recording_queue' = Append(rosbag_recording_queue, d)
             /\ d \notin DOMAIN rosbags_directories' )

C5_ManifestEventCompletes == [][C5_Step]_vars

\* C6: data files before the manifest: the manifest is merged without
\* discarding the received files and the directory stays eligible, so the
\* order [b, a, manifest, c] with manifest [a, b, c] publishes the directory
\* exactly once, while c's event is processed.
C6_FilesThenManifest ==
    LET d == "rec1"
        a == [parent |-> d, name |-> BagA]
        b == [parent |-> d, name |-> BagB]
        c == [parent |-> d, name |-> BagC]
        m == MetadataPath(d)
    IN  manifest[d] = <<BagA, BagB, BagC>> =>
          /\ EventsOf(d) = <<b, a, m>> =>
               /\ d \in DOMAIN rosbags_directories
               /\ Range(rosbags_directories[d].received_rosbags) = {a, b}
               /\ rosbags_directories[d].expected_rosbags # None
          /\ EventsOf(d) = <<b, a, m, c>> => PublishedOnceAtLastEvent(d)

\* C7: a directory is put on the completion queue only when a manifest of the
\* directory has been parsed before and the set of received files equals the
\* set of expected files: never with an expected file missing, an unexpected
\* file present or the expected set unknown.  The queue holds exactly the
\* publications that were made.
C7_NeverCompletesEarly ==
    /\ polled \o rosbag_recording_queue = [i \in DOMAIN putLog |-> putLog[i].dir]
    /\ \A i \in DOMAIN putLog :
         LET p == putLog[i]
         IN  /\ \E j \in 1..(p.at - 1) : events[j] = MetadataPath(p.dir)
             /\ p.expected # None
             /\ Range(Val(p.expected)) = ManifestSet(p.dir)
             /\ Range(p.received) = ManifestSet(p.dir)
             /\ \A f \in ManifestSet(p.dir) :
                    \E j \in 1..p.at : events[j] = f

\* A directory with two or more expected files is published although one of
\* its files was closed twice (the received list holds a duplicate).
C7_Witness ==
    \E i \in DOMAIN putLog :
        /\ Cardinality(ManifestSet(putLog[i].dir)) >= 2
        /\ Len(putLog[i].received) > Cardinality(Range(putLog[i].received))

\* C8: at-most-once completion: once a directory has been published and its
\* entry removed, no later events recreate tracking state for it or publish
\* it a second time.
C8_AtMostOnce ==
    \A d \in Dirs :
        /\ Cardinality(PutsOf(d)) <= 1
        /\ PutsOf(d) # {} => d \notin DOMAIN rosbags_directories

\* C9: idempotence under re-delivery.
ExactlyOneDuplicate(s) ==
    \E x \in Range(s) :
        /\ Count(s, x) = 2
        /\ \A y \in Range(s) \ {x} : Count(s, y) = 1

NoDuplicate(s) == \A x \in Range(s) : Count(s, x) = 1

\* s without the later occurrence of each repeated element.
RECURSIVE DedupFrom(_, _)
DedupFrom(s, i) ==
    IF i > Len(s) THEN <<>>
    ELSE IF \E j \in 1..(i - 1) : s[j] = s[i] THEN DedupFrom(s, i + 1)
    ELSE <<s[i]>> \o DedupFrom(s, i + 1)
Dedup(s) == DedupFrom(s, 1)

ReceivedSet(dirs, d) ==
    IF d \in DOMAIN dirs THEN Range(dirs[d].received_rosbags) ELSE {}

ExpectedSet(dirs, d) ==
    IF d \in DOMAIN dirs /\ dirs[d].expected_rosbags # None
    THEN Some(Range(Val(dirs[d].expected_rosbags)))
    ELSE None

\* The number of completion signals is that of the run without the duplicate,
\* and at most one.
C9_Counts ==
    \A d \in Dirs :
        LET s == EventsOf(d)
        IN  (Range(s) \subseteq RecordingPaths(d) /\ ExactlyOneDuplicate(s))
            => /\ Cardinality(PutsOf(d)) = Len(Run(manifest, Dedup(s)).queue)
               /\ Cardinality(PutsOf(d)) <= 1

\* The re-delivered data file leaves the received set as it was, the
\* re-delivered manifest leaves the expected set as it was.
C9_Step ==
    \A p \in Paths :
        ( /\ events' = Append(events, p)
          /\ Range(EventsOf(p.parent)) \subseteq RecordingPaths(p.parent)
          /\ p \in RecordingPaths(p.parent)
          /\ NoDuplicate(EventsOf(p.parent))
          /\ Count(events, p) = 1 )
        => /\ is_rosbag_file(p) =>
                ReceivedSet(rosbags_directories', p.parent)
                    = ReceivedSet(rosbags_directories, p.parent)
           /\ is_rosbag_metadata(p) =>
                ExpectedSet(rosbags_directories', p.parent)
                    = ExpectedSet(rosbags_directories, p.parent)

\* C9: in an event sequence of one recording with exactly one event delivered
\* twice, the number of completion signals is the same as without the
\* duplicate and never more than one; the duplicated data-file event does not
\* change the received set, the duplicated manifest event does not change the
\* expected set.
C9_RedeliveryIdempotent == [][C9_Counts' /\ C9_Step]_vars

\* ========================================================================
\* Properties of the compression pipeline (checked under SpecPipeline)
\* ========================================================================

\* C2: backpressure: in every reachable state the number of compressed items
\* put on the queue and not yet taken by the consumer is at most
\* compression_queue_max_size.
C2_QueueWithinCapacity == Len(compressed_rosbags_queue) <= QueueMaxSize

\* C3: with stop() never called, whenever get_compressed_bag has returned
\* None the queue is drained: nothing is on the queue and no worker has
\* anything left to put.
C3_NoneMeansDrained ==
    (cpc = "returned" /\ ~stop_event) =>
        /\ compressed_rosbags_queue = <<>>
        /\ pending_rosbags_indices = {}
        /\ \A w \in Workers : wpc[w] = "done"

\* C10: when the compressor exits non-zero or leaves no output file for an
\* index, nothing for that index is put on the queue or handed to the
\* consumer; the failure ends no worker (a worker ends only once nothing is
\* pending or stop was requested).
C10_FailedItemDropped ==
    /\ \A i \in compress_failed :
          \A r \in Range(compressed_rosbags_queue) \cup Range(got) :
              r.absolute_path # i
    /\ \A w \in Workers :
          wpc[w] = "done" => (pending_rosbags_indices = {} \/ stop_event)

\* ========================================================================
\* Properties of the transfer tasks (checked under SpecTransfer)
\* ========================================================================
Finished(i) == tpc[i] = "done" /\ task_result[i] # None

\* C4 as stated: the transfer tool is invoked at most max_upload_attempts
\* times; if it fails k < max_upload_attempts times and then succeeds, the
\* upload reports success and the compressed file is deleted; if it fails
\* max_upload_attempts times, the upload reports failure and has not deleted
\* the compressed file itself.
C4_RetryBoundAsStated ==
    \A i \in Bags :
        /\ rsync_calls[i] <= MaxUploadAttempts
        /\ (Finished(i) /\ success[i]) =>
              /\ attempts[i] < MaxUploadAttempts
              /\ task_result[i] = Some(TRUE)
              /\ i \notin Range(remote_temp)
        /\ (Finished(i) /\ attempts[i] >= MaxUploadAttempts) =>
              /\ task_result[i] = Some(FALSE)
              /\ rm_result[i] = None

\* C4 amended: the transfer tool is invoked at most max_upload_attempts
\* times; if it fails k < max_upload_attempts times and then succeeds, the
\* removal of the compressed file is issued and the upload reports success
\* exactly when that removal succeeds (the file is then deleted), failure
\* when the removal fails; if it fails max_upload_attempts times, the upload
\* reports failure and has not issued the removal.
C4_RetryBound ==
    \A i \in Bags :
        /\ rsync_calls[i] <= MaxUploadAttempts
        /\ rsync_calls[i] = attempts[i] + (IF success[i] THEN 1 ELSE 0)
        /\ (Finished(i) /\ success[i]) =>
              /\ attempts[i] < MaxUploadAttempts
              /\ rm_result[i] # None
              /\ task_result[i] = rm_result[i]
              /\ task_result[i] = Some(TRUE) => i \notin Range(remote_temp)
        /\ (Finished(i) /\ attempts[i] >= MaxUploadAttempts) =>
              /\ ~success[i]
              /\ task_result[i] = Some(FALSE)
              /\ rm_result[i] = None

\* One task succeeded after max_upload_attempts - 1 failed transfers and
\* removed its file; another exhausted its attempts.
C4_Witness ==
    \E i, j \in Bags :
        /\ Finished(i) /\ success[i] /\ attempts[i] = MaxUploadAttempts - 1
        /\ task_result[i] = Some(TRUE) /\ i \notin Range(remote_temp)
        /\ Finished(j) /\ attempts[j] = MaxUploadAttempts
        /\ task_result[j] = Some(FALSE) /\ j \in Range(remote_temp)

\* The directories published so far, in publication order.
Published == [i \in 1..Len(putLog) |-> putLog[i].dir]

\* C21: are_there_more_recordings never blocks (it can be called in every
\* state, also between any two on_closed calls), and what it has returned
\* so far followed by what is still on the queue is the sequence of the
\* publications in their order: each is returned once, none is lost.
C21_PollInPublicationOrder ==
    /\ ENABLED AreThereMoreRecordings
    /\ Published = polled \o rosbag_recording_queue

\* Two directories were published and polled, and on_closed ran again after
\* the last publication.
C21_Witness ==
    /\ Len(polled) >= 2
    /\ rosbag_recording_queue = <<>>
    /\ polled[1] # polled[2]
    /\ Len(events) > putLog[Len(putLog)].at

\* ========================================================================
\* Properties of the tracker with malformed manifests (checked under
\* SpecTrackerMalformed)
\* ========================================================================

\* C17: a metadata.yaml that cannot be parsed is not fatal: no exception
\* leaves the event handler on_closed (the files received so far stay
\* tracked, nothing is published, and later events are processed).
C17_MalformedManifestNotFatal == escaped = <<>>

\* The last call of on_closed was for a malformed metadata.yaml.
LastEventMalformed ==
    escaped # <<>> /\ escaped[Len(escaped)] = Len(events)

Delivered(idx) == Cardinality({k \in DOMAIN got : got[k].absolute_path = idx})

\* The workers that hold index idx (popped, not yet put).
Holders(idx) == {w \in Workers : widx[w] = Some(idx)}

\* How many compressed rosbags of index idx are on the queue.
Queued(idx) ==
    Cardinality({k \in DOMAIN compressed_rosbags_queue :
                    compressed_rosbags_queue[k].absolute_path = idx})

\* C23: an index is popped from pending_rosbags_indices at most once and by
\* one worker, before that worker compresses it: a worker compresses only
\* while it holds an index, the index it holds is no longer pending and no
\* other worker holds it, what it compressed is the index it popped, and an
\* index that was compressed and put is neither pending nor held again.
C23_PendingExclusive ==
    /\ \A w \in Workers :
          /\ wpc[w] \in {"compress", "put"} <=> widx[w] # None
          /\ widx[w] # None => Val(widx[w]) \notin pending_rosbags_indices
          /\ wbag[w] # None => Val(wbag[w]).absolute_path = Val(widx[w])
    /\ \A idx \in Indices :
          /\ Cardinality(Holders(idx)) <= 1
          /\ Cardinality(Holders(idx)) + Queued(idx) + Delivered(idx) <= 1
          /\ Queued(idx) + Delivered(idx) > 0 =>
                idx \notin pending_rosbags_indices

\* Two workers compress different indices at the same time while a third
\* index has already been delivered.
C23_Witness ==
    /\ \E w1, w2 \in Workers :
          /\ w1 # w2
          /\ wpc[w1] = "compress" /\ wpc[w2] = "compress"
          /\ widx[w1] # widx[w2]
    /\ \E idx \in Indices : Delivered(idx) = 1

\* ========================================================================
\* Properties of stop() and of process_rosbags_in_directory (checked under
\* SpecUploader and SpecPipelineStop)
\* ========================================================================

\* stop() has returned: its last statement, self.threads.clear(), has run.
StopReturned == stop_event /\ threads = {}

\* C11: once stop() has returned no worker puts an item on the queue, in
\* every interleaving, also when a worker was inside the external
\* compressor at the time of the call and outlasted the join timeout.
C11_NoPutAfterStop ==
    [][StopReturned =>
          Len(compressed_rosbags_queue') <= Len(compressed_rosbags_queue)]_vars

\* C15: whenever get_compressed_bag has returned None, no index is pending
\* and every worker thread has ended (so nothing is put on the queue
\* afterwards), also in the runs where stop() was called before.
C15_NoneMeansWorkersEnded ==
    cpc = "returned" =>
        /\ pending_rosbags_indices = {}
        /\ \A w \in Workers : ~is_alive(w)

\* C16: with a caller that keeps calling get_compressed_bag (after any
\* pause), the compressed output of every rosbag is returned exactly once,
\* and only after all of them is None returned.
C16_AllDeliveredBeforeSentinel ==
    cpc = "returned" => \A idx \in Indices : Delivered(idx) = 1

\* C25: once the stop flag is set, each worker pops at most one more index;
\* a worker that reaches the loop test (for instance from the full-queue
\* wait) leaves the loop there without popping; a worker whose compressor
\* has returned eventually ends; and stop() returns although a compression
\* is still running.
C25_CooperativeStop ==
    /\ [](\A w \in Workers : pops_after_stop[w] <= 1)
    /\ [][\A w \in Workers :
            (stop_event /\ wpc[w] = "loop" /\ wpc'[w] # "loop")
                => (wpc'[w] = "done" /\ widx'[w] = None)]_vars
    /\ \A w \in Workers : (stop_event /\ wpc[w] = "put") ~> (wpc[w] = "done")
    /\ (cpc = "stop") ~> (cpc = "stop_returned")

\* stop() has returned while one worker, which popped its index after the
\* flag was set, is still inside the compressor.
C25_Witness ==
    /\ cpc = "stop_returned"
    /\ \E w \in Workers : pops_after_stop[w] = 1 /\ wpc[w] = "compress"

\* The uploads of compressed rosbags that failed (upload_file raised).
FailedUploads ==
    {k \in DOMAIN upload_log :
        upload_log[k].file # None /\ upload_log[k].result # "return"}

\* Rosbags of the recording that were not handed to the uploader yet.
RemainingWork ==
    \/ pending_rosbags_indices # {}
    \/ compressed_rosbags_queue # <<>>
    \/ \E w \in Workers : widx[w] # None

\* C12: a compressed file whose upload fails does not end the upload loop:
\* as long as rosbags of the recording remain, the function goes on taking
\* them from the pipeline instead of ending with the failure.
C12_FailedUploadKeepsLoop ==
    (FailedUploads # {} /\ RemainingWork) => cpc # "raised"

\* C14: upload_file succeeds when the tool's stderr contains 'file already
\* exists', whatever the exit code; it succeeds when the exit code is zero;
\* it fails when the exit code is non-zero and stderr lacks that text.
C14_UploadFileOutcome ==
    \A k \in DOMAIN upload_log :
        LET tool == upload_log[k].tool
            result == upload_log[k].result
        IN  /\ Contains(tool.stderr, AlreadyExists) => result = "return"
            /\ tool.exit_code = 0 => result = "return"
            /\ (tool.exit_code # 0 /\ ~Contains(tool.stderr, AlreadyExists))
                   => result # "return"

\* The compressed files whose upload was tried and failed.
FailedFiles == UNION {upload_log[k].file : k \in FailedUploads}

\* C19: when the handler of KeyboardInterrupt has run (stop() has returned
\* and the handler's rmdir is over), every compressed file still in the temp
\* directory is one whose upload failed: none that sat in the queue or came
\* from a worker is left behind.
C19_NoOrphanAfterInterrupt ==
    [][(cpc = "stop_returned" /\ cpc' # "stop_returned")
          => temp_files' \subseteq FailedFiles']_vars

\* C20: removing the temp directory never fails the function: a directory
\* that still holds compressed files is left in place and the caller gets
\* its result, not an error.
C20_NonEmptyTempLeftInPlace ==
    temp_files # {} => exception # Some("OSError")

\* ========================================================================
\* Properties of process_directory (checked under SpecDirectory)
\* ========================================================================

\* The task's transfer failed max_upload_attempts times and its compressed
\* file is in the temp directory.
RetainedAfterFailure(i) ==
    /\ tpc[i] = "done"
    /\ ~success[i]
    /\ attempts[i] >= MaxUploadAttempts
    /\ i \in Range(remote_temp)

\* C13: once the tasks of the directory have ended, the compressed file of a
\* task that exhausted its attempts stays in the temp directory: no later
\* step of process_directory deletes it.
C13_FailedFileRetained ==
    [][\A i \in Bags :
          (RetainedAfterFailure(i) /\ \A j \in Bags : tpc[j] = "done")
              => i \in Range(remote_temp')]_vars

\* C22: with clean_up enabled, when process_directory has returned, the raw
\* rosbags deleted from the source machine are exactly those whose
\* compress_and_transfer_rosbag returned True.
C22_SourceDeletedIffUploaded ==
    (clean_up /\ pdpc = "returned") =>
        \A i \in Bags :
            task_result[i] = Some(TRUE) <=> RosbagPath(i) \notin source_files

\* C24: while the tasks of a directory run in parallel, a compressed file
\* leaves the temp directory only through its own task's rm after its own
\* transfer succeeded; no other task deletes it.
C24_TempFileDeletedByOwnTask ==
    [][\A i \in Bags :
          (i \in Range(remote_temp) /\ i \notin Range(remote_temp'))
              => (tpc[i] = "rm" /\ success[i] /\ tpc'[i] = "done")]_vars
\* C26: pending_lock is held only inside the two with-blocks: by a worker
\* between entering the block and its pop or break, by the consumer inside
\* is_running.  No thread holds it while the compressor runs, while a worker
\* sleeps or tests the queue size, during a put, or while the consumer waits
\* on the queue; whoever holds it can leave the block at once.
C26_NoLockAcrossBlockingCalls ==
    /\ \A w \in Workers : pending_lock = Some(w) => wpc[w] = "pop"
    /\ pending_lock = Some(Consumer) => cpc = "is_running"
    /\ pending_lock # None =>
          \/ \E w \in Workers : ENABLED WorkerPopLocked(w)
          \/ ENABLED ConsumerCheckRunningLocked

\* One worker is inside the compressor while another thread holds the lock.
C26_Witness ==
    \E w \in Workers :
        /\ wpc[w] = "compress"
        /\ pending_lock # None
        /\ pending_lock # Some(w)
InFlight == {w \in Workers : wpc[w] \in {"pop", "compress", "put"}}

\* C28: with W workers and capacity Q the queue never holds more than
\* Q + W - 1 unconsumed items: a worker passes its test only when the queue
\* holds fewer than Q items and then adds at most one, so the queue length
\* plus the number of workers past their test never exceeds Q + W - 1.
C28_QueueCeiling ==
    /\ Len(compressed_rosbags_queue) <= QueueMaxSize + NumWorkers - 1
    /\ Len(compressed_rosbags_queue) + Cardinality(InFlight)
           <= QueueMaxSize + NumWorkers - 1

\* The ceiling is reached: Q + W - 1 items wait on the queue.
C28_Witness ==
    Len(compressed_rosbags_queue) = QueueMaxSize + NumWorkers - 1
\* A process that can still take an item from the queue.
Taking(p) == backup_pc[p] \in {"get", "upload"}

\* C29: a recording handed to enqueue never waits on the queue without an
\* uploading process that will take it: whenever enqueue has returned and
\* the queue holds a recording, some started process is still in its loop
\* (before its timeout), so no later enqueue call is needed.
C29_NoLostWakeup ==
    (enqueue_pc = "idle" /\ to_backup_queue # <<>>) =>
        \E p \in Processes : Taking(p)
\* C30: a get_compressed_bag call made after stop() has returned comes back:
\* when its get has timed out on the empty queue and every worker has left
\* its loop, so that nothing will be put any more, is_running answers False
\* and the call returns None instead of sleeping and trying again.
C30_GetReturnsAfterStop ==
    ( /\ stop_event
      /\ threads = {}
      /\ cpc = "is_running"
      /\ compressed_rosbags_queue = <<>>
      /\ \A w \in Workers : wpc[w] = "done" )
        => ~is_running
\* The workers that hold a popped index they have not put yet.
BetweenPopAndPut == {w \in Workers : wpc[w] \in {"compress", "put"}}

\* The number of items put on the queue so far: those still on it and those
\* the consumer has taken.
PutSoFar == Len(compressed_rosbags_queue) + Len(got)

\* C31: without stop(), every popped index leads to exactly one put, whether
\* the compressor exited zero or non-zero: the pending indices, the workers
\* between pop and put and the items put so far always add up to N, and
\* when every worker has exited N items have been put.
C31_WorkConservation ==
    /\ Cardinality(pending_rosbags_indices) + Cardinality(BetweenPopAndPut)
           + PutSoFar = NumRosbags
    /\ (\A w \in Workers : wpc[w] = "done") => PutSoFar = NumRosbags

\* Every worker has exited after a run in which a compressor exited non-zero.
C31_Witness ==
    /\ \A w \in Workers : wpc[w] = "done"
    /\ compress_failed # {}
    /\ PutSoFar = NumRosbags
\* The positions of sent_commands that hold a transfer command.
Transfers == {k \in DOMAIN sent_commands : sent_commands[k].cmd = "lftp pget"}

MissingManifest ==
    /\ main_pc \in {"in_directory", "aborted"}
    /\ pdpc # "find_metadata"
    /\ metadata_path = None

\* C33: a directory without metadata.yaml is skipped and nothing else: no
\* rosbag of it is submitted, compressed or transferred, and once its temp
\* directory has been removed process_directory has returned normally, so
\* that main goes on to the next subdirectory and to its summary.
C33_MissingManifestSkipsDirectory ==
    MissingManifest =>
        /\ \A i \in Bags : submissions[i] = 0 /\ tpc[i] = "new"
        /\ ~remote_temp_directory =>
               (pdpc = "returned" /\ main_pc # "aborted")
\* The manifest of the directory being processed was read and the count
\* guard has been passed.
PastCountGuard ==
    /\ main_pc = "in_directory"
    /\ metadata_path # None
    /\ pdpc \notin {"find_metadata", "read_metadata", "count_guard"}

\* C35: when the number of rosbags found differs from the number the
\* manifest lists, no rosbag of the directory is submitted, compressed or
\* transferred, and process_directory returns 0 uploaded files and the
\* global counter it was given, with the temp directory removed; when the
\* numbers match every rosbag is submitted exactly once.
C35_ManifestCountGuard ==
    PastCountGuard =>
        IF expected_bags # NumBags
        THEN /\ \A i \in Bags : submissions[i] = 0 /\ tpc[i] = "new"
             /\ pdpc # "collect"
             /\ pdpc = "returned" =>
                    /\ ProcessDirectoryResult.uploaded_files = 0
                    /\ ProcessDirectoryResult.global_rosbag_counter
                           = global_rosbag_counter
                    /\ ~remote_temp_directory
        ELSE \A i \in Bags : submissions[i] = 1

\* process_directory has returned from a directory whose manifest lists
\* fewer files than were found.
C35_Witness ==
    /\ PastCountGuard
    /\ expected_bags # NumBags
    /\ pdpc = "returned"

\* The files of directory d that metadata.yaml lists.
Listed(d) == {[parent |-> d, name |-> manifest[d][i]] :
                 i \in 1..Len(manifest[d])}

\* Directory d is tracked and has received a file its manifest does not
\* list.
HasUnlisted(d) ==
    /\ d \in DOMAIN rosbags_directories
    /\ Range(rosbags_directories[d].received_rosbags) \ Listed(d) # {}

\* C34: an entry leaves rosbags_directories only in the step that puts its
\* directory on the queue; a tracked directory that has received a file its
\* manifest does not list is not published by any later event and its
\* entry, with the unlisted file, stays in the map.
C34_RemovedOnlyByCompletion ==
    [][\A d \in Dirs :
          /\ (d \in DOMAIN rosbags_directories
                /\ d \notin DOMAIN rosbags_directories')
                => /\ rosbag_recording_queue'
                          = Append(rosbag_recording_queue, d)
                   /\ putLog' # putLog
                   /\ putLog'[Len(putLog')].dir = d
          /\ HasUnlisted(d)
                => /\ HasUnlisted(d)'
                   /\ putLog' # putLog => putLog'[Len(putLog')].dir # d]_vars

\* rec1's manifest came first, then every file it lists and one it does not
\* list, and one more event: the entry is still tracked.
C34_Witness ==
    /\ HasUnlisted("rec1")
    /\ rosbags_directories["rec1"].absolute_path # None
    /\ Listed("rec1") \subseteq
           Range(rosbags_directories["rec1"].received_rosbags)
    /\ Len(events) = MaxEvents

\* The path of the on_closed call a step makes.
ClosedPath == events'[Len(events')]

\* The entry of directory d, None when d is not tracked.
Entry(dirs, d) == IF d \in DOMAIN dirs THEN Some(dirs[d]) ELSE None

\* C36: an on_closed call for a path ending neither in metadata.yaml nor in
\* .mcap changes neither rosbags_directories nor the queue; a call for a
\* path ending in metadata.yaml sets the expected files of its directory's
\* entry and nothing else (no file is received, nothing is published, the
\* entry stays); a call for a path ending in .mcap adds that file to the
\* received files of its directory's entry and leaves the expected files
\* as they were, unless it publishes the directory; no call changes the
\* entry of a directory other than the path's parent.
C36_ClassificationAndFrame ==
    [][events' # events =>
        LET path == ClosedPath
            d == path.parent
            before == Entry(rosbags_directories, d)
            after == Entry(rosbags_directories', d)
        IN  /\ (~EndsWith(path.name, "metadata.yaml")
                  /\ ~EndsWith(path.name, ".mcap"))
                 => /\ rosbags_directories' = rosbags_directories
                    /\ rosbag_recording_queue' = rosbag_recording_queue
            /\ EndsWith(path.name, "metadata.yaml")
                 => /\ rosbag_recording_queue' = rosbag_recording_queue
                    /\ after # None
                    /\ Val(after).expected_rosbags # None
                    /\ Range(Val(Val(after).expected_rosbags)) = Listed(d)
                    /\ Val(after).received_rosbags =
                          IF before = None THEN <<>>
                          ELSE Val(before).received_rosbags
            /\ EndsWith(path.name, ".mcap")
                 => IF after = None
                    THEN rosbag_recording_queue'
                             = Append(rosbag_recording_queue, d)
                    ELSE /\ rosbag_recording_queue' = rosbag_recording_queue
                         /\ Val(after).received_rosbags =
                               IF before = None THEN <<path>>
                               ELSE Append(Val(before).received_rosbags, path)
                         /\ Val(after).expected_rosbags =
                               IF before = None THEN None
                               ELSE Val(before).expected_rosbags
            /\ \A o \in Dirs \ {d} :
                  Entry(rosbags_directories', o)
                      = Entry(rosbags_directories, o)]_vars

\* Both directories are tracked with a received file, rec1 with its
\* manifest, and a file that is neither a manifest nor a rosbag has been
\* closed.
C36_Witness ==
    /\ \E k \in 1..Len(events) : events[k].name = OtherName
    /\ \E k \in 1..Len(events) : events[k] = MetadataPath("rec1")
    /\ \A d \in Dirs :
          /\ d \in DOMAIN rosbags_directories
          /\ rosbags_directories[d].received_rosbags # <<>>
    /\ rosbags_directories["rec1"].expected_rosbags # None
====
